---- MODULE Spec2Model ----
(***************************************************************************)
(* A model of the agentsync reconciliation core: the three-tier server     *)
(* merge and case-insensitive dedup, the per-target server filter, the     *)
(* Codex marker-delimited TOML merge, the markdown section filter, the     *)
(* server-consistency check, the sync run over the targets (SyncEngine.run *)
(* with the Codex and Antigravity adapters), the validation run, the check *)
(* for excluded sections and the backups taken before a file is written.   *)
(*                                                                         *)
(* Representation.  A Python str is a sequence of characters, a character  *)
(* being a one-token TLA+ string.  Fixed literals of the program that the  *)
(* bounded alphabets cannot spell are single tokens (the two marker lines, *)
(* the "[mcp_servers." prefix, " = ", the config keys).  A Python dict is  *)
(* a sequence of entries [k |-> key, v |-> value] with distinct keys, in   *)
(* insertion order.                                                        *)
(***************************************************************************)
EXTENDS Integers, Sequences, FiniteSets, TLC

VARIABLES
    \* --- three-tier load and dedup (adapters/claude.py, utils/dedup.py)
    globalFile,        \* ~/.claude.json as _read_json sees it
    localFile,         \* .mcp.json as _read_json sees it
    merged,            \* what load_servers returned
    registry,          \* what dedup_servers returned
    mpc,               \* "start" | "loaded" | "deduped"
    \* --- Codex target file (adapters/codex.py)
    cservers,          \* the registry handed to generate_mcp
    mcp_text,          \* CodexTargetAdapter._mcp_text
    file,              \* the config.toml on disk
    orig,              \* the config.toml before the first write
    prev,              \* the config.toml before the latest write
    writes,            \* number of writes done
    \* --- rules sections (utils/markdown.py)
    doc,               \* the content of CLAUDE.md
    all_sections,      \* what load_rules returned
    exclude_set,       \* rules.exclude_sections as a set
    filtered,          \* what filter_sections returned
    section_check,     \* check_no_excluded_sections: its content and result
    rpc,               \* "start" | "loaded" | "filtered" | "checked"
    \* --- per-target filter and consistency check (sync.py, validate.py)
    servers,           \* the registry handed to _filter_servers
    target_cfg,        \* config.targets.get(target_name)
    filtered_servers,  \* what _filter_servers returned
    expected,          \* check_server_consistency: expected
    actual_names,      \* check_server_consistency: actual_names
    exclude,           \* check_server_consistency: exclude
    stdio_only,        \* check_server_consistency: stdio_only
    finding,           \* the ValidationResult returned
    fpc,               \* "start" | "filtered" | "checked"
    \* --- the sync run (sync.py) and the adapters it drives
    source,            \* the source files: [global, local, rules]
    _config,           \* AgentSyncConfig: [targets, exclude_sections, backup]
    adapters,          \* per target name, the adapter object's fields
    disk,              \* per path, the file on disk
    backups,           \* the files of the backup directory
    flags,             \* the arguments of the current run
    target_names,      \* run: target_names
    run_servers,       \* run: servers
    run_sections,      \* run: all_sections
    idx,               \* run: the position of the loop over target_names
    result,            \* run: result
    calls,             \* the calls the current run has made, in order
    raised,            \* per processed target, the call that raised
    handed,            \* per processed target, what its generators were given
    disk0,             \* disk when the current run started
    backups0,          \* backups when the current run started
    adapters0,         \* adapters when the current run started
    runs,              \* runs started so far
    epc,               \* "ready" | "loaded" | "returned" | "validated"
    \* --- the validation run (validate.py)
    vtargets,          \* Validator._targets: the names, in order
    vfilter,           \* run: target_filter
    vnames,            \* run: target_names
    vidx,              \* run: the position of the loop over target_names
    report,            \* run: report
    vpc,               \* "start" | "looping" | "returned"
    \* --- file writes and their backups (utils/io.py, utils/backup.py)
    fsys,              \* the file system: [disk, backups, now]
    history,           \* the write calls of the current run, in order
    wruns              \* runs started so far

mergeVars  == <<globalFile, localFile, merged, registry, mpc>>
tomlVars   == <<cservers, mcp_text, file, orig, prev, writes>>
rulesVars  == <<doc, all_sections, exclude_set, filtered, section_check, rpc>>
filterVars == <<servers, target_cfg, filtered_servers, expected,
                actual_names, exclude, stdio_only, finding, fpc>>
engineVars == <<source, _config, adapters, disk, backups, flags, target_names,
                run_servers, run_sections, idx, result, calls, raised,
                handed, disk0, backups0, adapters0, runs, epc>>
validatorVars == <<vtargets, vfilter, vnames, vidx, report, vpc>>
backupVars == <<fsys, history, wruns>>
vars == <<mergeVars, tomlVars, rulesVars, filterVars, engineVars,
          validatorVars, backupVars>>

---------------------------------------------------------------------------
\* Bounds of the model.

\* Server entries over all three tiers of one load.
MaxServers == 3

---------------------------------------------------------------------------
\* Strings.

\* str.lower() on the characters the model uses.
LowerMap == ("A" :> "a") @@ ("B" :> "b") @@ ("S" :> "s")

LowerChar(c) == IF c \in DOMAIN LowerMap THEN LowerMap[c] ELSE c

StrLower(s) == [i \in DOMAIN s |-> LowerChar(s[i])]

\* The server names of the model: two casings of one identity, a second
\* identity, and two names that differ in '-' against '_'.
NameA  == <<"a">>
NameUA == <<"A">>
NameB  == <<"b">>

---------------------------------------------------------------------------
\* Python dicts, in insertion order.

Keys(d) == {d[i].k : i \in DOMAIN d}

HasKey(d, key) == \E i \in DOMAIN d : d[i].k = key

Get(d, key) == d[CHOOSE i \in DOMAIN d : d[i].k = key].v

\* d[e.k] = e.v: an existing key keeps its position.
Put(d, e) ==
    IF HasKey(d, e.k)
    THEN [i \in DOMAIN d |-> IF d[i].k = e.k THEN e ELSE d[i]]
    ELSE Append(d, e)

\* d.update(other)
RECURSIVE DictUpdate(_, _)
DictUpdate(d, other) ==
    IF other = <<>> THEN d
    ELSE DictUpdate(Put(d, Head(other)), Tail(other))

DistinctKeys(d) == \A i, j \in DOMAIN d : d[i].k = d[j].k => i = j

---------------------------------------------------------------------------
\* ServerConfig (adapters/base.py).  A config is a dict of str values.

is_stdio(sc) == HasKey(sc.config, "command")

is_http(sc) == HasKey(sc.config, "url")

CfgX == << [k |-> "command", v |-> <<"x">>] >>
CfgY == << [k |-> "command", v |-> <<"y">>] >>

---------------------------------------------------------------------------
\* The three-tier load (ClaudeSourceAdapter.load_servers).

\* _extract_servers: the entries whose value is a dict, as ServerConfig.
RECURSIVE _extract_servers(_)
_extract_servers(raw) ==
    IF raw = <<>> THEN <<>>
    ELSE LET e == Head(raw)
             rest == _extract_servers(Tail(raw))
         IN IF e.isdict
            THEN <<[k |-> e.k, v |-> [name |-> e.k, config |-> e.v]]>> \o rest
            ELSE rest

\* The states of a source file: a JSON object, or a file that is missing,
\* cannot be read, is not valid JSON, or is valid JSON but no object.
FileKinds == {"object", "missing", "unreadable", "invalid", "notobject"}

\* _read_json: the parsed object, or None.
_read_json(f) == IF f.kind = "object" THEN f ELSE [kind |-> "None"]

\* A load that gives up as soon as one file or one mcpServers value is
\* unusable.
LoadServersAllOrNothing(g, l) ==
    IF /\ g.kind = "object" /\ g.top.isdict /\ g.proj.isdict
       /\ l.kind = "object" /\ l.servers.isdict
    THEN DictUpdate(DictUpdate(DictUpdate(<<>>, _extract_servers(g.top.d)),
                               _extract_servers(g.proj.d)),
                    _extract_servers(l.servers.d))
    ELSE <<>>

\* load_servers.  A file is [kind, ...] with one field per mcpServers value
\* it holds; such a value is [isdict |-> it is a dict, d |-> that dict].
\* proj is projects[config_dir].mcpServers, not a dict when projects or
\* the project block is none.
load_servers(g, l) ==
    LET global_data == _read_json(g)
        mcp_data == _read_json(l)
        m1 == IF global_data.kind # "None" /\ global_data.top.isdict
              THEN DictUpdate(<<>>, _extract_servers(global_data.top.d))
              ELSE <<>>
        m2 == IF global_data.kind # "None" /\ global_data.proj.isdict
                  /\ global_data.proj.d # <<>>
              THEN DictUpdate(m1, _extract_servers(global_data.proj.d))
              ELSE m1
        m3 == IF mcp_data.kind # "None" /\ mcp_data.servers.isdict
              THEN DictUpdate(m2, _extract_servers(mcp_data.servers.d))
              ELSE m2
    IN m3

\* A dedup that keeps the first of two colliding names.
RECURSIVE DedupLoopFirstWins(_, _)
DedupLoopFirstWins(items, seen) ==
    IF items = <<>> THEN seen
    ELSE LET key == Head(items).k
             sc == Head(items).v
         IN DedupLoopFirstWins(Tail(items),
               IF HasKey(seen, StrLower(key)) THEN seen
               ELSE Put(seen, [k |-> StrLower(key), v |-> <<key, sc>>]))

\* dedup_servers: the loop over servers.items(), then the comprehension.
RECURSIVE DedupLoop(_, _)
DedupLoop(items, seen) ==
    IF items = <<>> THEN seen
    ELSE LET key == Head(items).k
             sc == Head(items).v
         IN DedupLoop(Tail(items),
                      Put(seen, [k |-> StrLower(key), v |-> <<key, sc>>]))

dedup_servers(d) ==
    LET seen == DedupLoop(d, <<>>)
    IN [i \in DOMAIN seen |-> [k |-> seen[i].k, v |-> seen[i].v[2]]]

---------------------------------------------------------------------------
\* Values of the variables a specification does not use.

NoText == [set |-> FALSE, text |-> <<>>]
NoFile == [exists |-> FALSE, text |-> <<>>]
NoFinding == [name |-> <<>>, passed |-> TRUE, severity |-> "",
              message |-> [present |-> <<>>, parts |-> <<>>]]
NoTargetCfg == [present |-> FALSE, exclude_servers |-> <<>>, protocols |-> <<>>]

IdleMerge ==
    /\ globalFile = [kind |-> "missing", top |-> [isdict |-> FALSE, d |-> <<>>],
                     proj |-> [isdict |-> FALSE, d |-> <<>>]]
    /\ localFile = [kind |-> "missing",
                    servers |-> [isdict |-> FALSE, d |-> <<>>]]
    /\ merged = <<>>
    /\ registry = <<>>
    /\ mpc = "idle"

IdleToml ==
    /\ cservers = <<>>
    /\ mcp_text = NoText
    /\ file = NoFile
    /\ orig = NoFile
    /\ prev = NoFile
    /\ writes = 0

\* check_no_excluded_sections before it is called.
NoCheck == [of |-> "", content |-> <<>>,
            finding |-> [name |-> <<>>, passed |-> TRUE, leaked |-> {},
                         severity |-> ""]]

IdleRules ==
    /\ doc = <<>>
    /\ all_sections = <<>>
    /\ exclude_set = {}
    /\ filtered = <<>>
    /\ section_check = NoCheck
    /\ rpc = "idle"

IdleFilter ==
    /\ servers = <<>>
    /\ target_cfg = NoTargetCfg
    /\ filtered_servers = <<>>
    /\ expected = <<>>
    /\ actual_names = {}
    /\ exclude = {}
    /\ stdio_only = FALSE
    /\ finding = NoFinding
    /\ fpc = "idle"

\* run() before any argument is bound, and its result before it is made.
NoFlags == [dry_run |-> FALSE, mcp_only |-> FALSE, rules_only |-> FALSE,
            target_filter |-> "None"]
NoResult == [success |-> TRUE, dry_run |-> FALSE, target_results |-> <<>>]
NoReport == [passed |-> TRUE, results |-> <<>>]

IdleEngine ==
    /\ source = <<>>
    /\ _config = <<>>
    /\ adapters = <<>>
    /\ disk = <<>>
    /\ backups = {}
    /\ flags = NoFlags
    /\ target_names = <<>>
    /\ run_servers = <<>>
    /\ run_sections = <<>>
    /\ idx = 0
    /\ result = NoResult
    /\ calls = <<>>
    /\ raised = <<>>
    /\ handed = <<>>
    /\ disk0 = <<>>
    /\ backups0 = {}
    /\ adapters0 = <<>>
    /\ runs = 0
    /\ epc = "idle"

IdleBackup ==
    /\ fsys = [disk |-> <<>>, backups |-> {}, now |-> 0]
    /\ history = <<>>
    /\ wruns = 0

IdleValidator ==
    /\ vtargets = <<>>
    /\ vfilter = "None"
    /\ vnames = <<>>
    /\ vidx = 0
    /\ report = NoReport
    /\ vpc = "idle"

---------------------------------------------------------------------------
\* Specification SpecMerge: every source of at most MaxServers entries is
\* loaded (load_servers) and then deduplicated (dedup_servers), as
\* SyncEngine.run does.

MergeNames == {NameA, NameUA, NameB}

\* The entries of a raw mcpServers mapping: a dict value, or a value that
\* is not a dict (a string, a list, null).
RawEntries ==
    [k : MergeNames, v : {CfgX, CfgY}, isdict : {TRUE}]
        \cup [k : MergeNames, v : {<<>>}, isdict : {FALSE}]

RawDicts(n) == {d \in [1..n -> RawEntries] : DistinctKeys(d)}

\* An mcpServers value: a mapping of n entries, or (n = 0) not a mapping.
TierValues(n) ==
    {[isdict |-> TRUE, d |-> d] : d \in RawDicts(n)}
        \cup (IF n = 0 THEN {[isdict |-> FALSE, d |-> <<>>]} ELSE {})

\* A file that gives no object holds no mcpServers value.
NoValue == [isdict |-> FALSE, d |-> <<>>]

MergeInit ==
    /\ \E n1 \in 0..MaxServers :
       \E n2 \in 0..(MaxServers - n1) :
       \E n3 \in 0..(MaxServers - n1 - n2) :
          /\ \/ \E top \in TierValues(n1), proj \in TierValues(n2) :
                   globalFile = [kind |-> "object", top |-> top, proj |-> proj]
             \/ /\ n1 + n2 = 0
                /\ \E kind \in FileKinds \ {"object"} :
                      globalFile = [kind |-> kind, top |-> NoValue,
                                    proj |-> NoValue]
          /\ \/ \E loc \in TierValues(n3) :
                   localFile = [kind |-> "object", servers |-> loc]
             \/ /\ n3 = 0
                /\ \E kind \in FileKinds \ {"object"} :
                      localFile = [kind |-> kind, servers |-> NoValue]
    /\ merged = <<>>
    /\ registry = <<>>
    /\ mpc = "start"
    /\ IdleToml /\ IdleRules /\ IdleFilter /\ IdleEngine /\ IdleValidator
    /\ IdleBackup

\* sync.py line 83: servers = self._source.load_servers()
LoadServers ==
    /\ mpc = "start"
    /\ merged' = load_servers(globalFile, localFile)
    /\ mpc' = "loaded"
    /\ UNCHANGED <<globalFile, localFile, registry>>
    /\ UNCHANGED <<tomlVars, rulesVars, filterVars, engineVars, validatorVars>>
    /\ UNCHANGED backupVars

\* sync.py line 84: servers = dedup_servers(servers, log)
DedupServers ==
    /\ mpc = "loaded"
    /\ registry' = dedup_servers(merged)
    /\ mpc' = "deduped"
    /\ UNCHANGED <<globalFile, localFile, merged>>
    /\ UNCHANGED <<tomlVars, rulesVars, filterVars, engineVars, validatorVars>>
    /\ UNCHANGED backupVars

MergeNext == LoadServers \/ DedupServers

SpecMerge == MergeInit /\ [][MergeNext]_vars

---------------------------------------------------------------------------
\* Claims about the merge.

\* What each tier defines: its dict-valued entries, nothing when the file
\* or the mapping is unusable.
Tier1 == IF globalFile.kind = "object" /\ globalFile.top.isdict
         THEN _extract_servers(globalFile.top.d) ELSE <<>>
Tier2 == IF globalFile.kind = "object" /\ globalFile.proj.isdict
         THEN _extract_servers(globalFile.proj.d) ELSE <<>>
Tier3 == IF localFile.kind = "object" /\ localFile.servers.isdict
         THEN _extract_servers(localFile.servers.d) ELSE <<>>

Identities(t) == {StrLower(key) : key \in Keys(t)}

\* The definitions a tier gives an identity (one per casing it lists).
DefsOf(t, id) ==
    {t[i].v.config : i \in {j \in DOMAIN t : StrLower(t[j].k) = id}}

HighestTier(id) ==
    IF id \in Identities(Tier3) THEN Tier3
    ELSE IF id \in Identities(Tier2) THEN Tier2
    ELSE Tier1

\* C1: after load_servers and dedup_servers the registry holds, for every
\* identity (names compared case-insensitively) some tier defines, a
\* definition of the highest-priority tier that defines it.
C1_HighestTierWins ==
    mpc = "deduped" =>
        \A id \in Identities(Tier1) \cup Identities(Tier2) \cup Identities(Tier3) :
            /\ HasKey(registry, id)
            /\ Get(registry, id).config \in DefsOf(HighestTier(id), id)

\* The last position of merged whose key folds to id.
LastIndex(d, id) ==
    CHOOSE i \in DOMAIN d :
        /\ StrLower(d[i].k) = id
        /\ \A j \in DOMAIN d : StrLower(d[j].k) = id => j <= i

\* C2: dedup_servers returns exactly one entry per case-folded input name,
\* keyed by the lowercase form, holding the definition of the colliding
\* input name that comes last in iteration order.
C2_DedupLastWins ==
    mpc = "deduped" =>
        /\ Keys(registry) = Identities(merged)
        /\ DistinctKeys(registry)
        /\ \A i \in DOMAIN registry :
              /\ StrLower(registry[i].k) = registry[i].k
              /\ registry[i].v = merged[LastIndex(merged, registry[i].k)].v

\* C2's case: two input names that differ only by case, with different
\* definitions, have been deduplicated.
C2_Witness ==
    /\ mpc = "deduped"
    /\ \E i, j \in DOMAIN merged :
          /\ i < j
          /\ merged[i].k # merged[j].k
          /\ StrLower(merged[i].k) = StrLower(merged[j].k)
          /\ merged[i].v.config # merged[j].v.config

\* An mcpServers value that is an empty mapping.
EmptyMapping == [isdict |-> TRUE, d |-> <<>>]

AsMapping(value) == IF value.isdict THEN value ELSE EmptyMapping

\* The source files with every unusable tier made an empty one: a file that
\* gives no object becomes an object of empty mappings, a value that is not
\* a mapping becomes an empty mapping.
GlobalWithEmptyTiers ==
    IF globalFile.kind = "object"
    THEN [kind |-> "object", top |-> AsMapping(globalFile.top),
          proj |-> AsMapping(globalFile.proj)]
    ELSE [kind |-> "object", top |-> EmptyMapping, proj |-> EmptyMapping]

LocalWithEmptyTiers ==
    IF localFile.kind = "object"
    THEN [kind |-> "object", servers |-> AsMapping(localFile.servers)]
    ELSE [kind |-> "object", servers |-> EmptyMapping]

\* C18: load_servers returns what it returns when every tier whose file is
\* missing, unreadable, invalid or no object, or whose mcpServers value is
\* no mapping, is an empty tier instead; the servers of the other tiers are
\* all there.
C18_BrokenTierIsEmpty ==
    mpc = "loaded" =>
        /\ merged = load_servers(GlobalWithEmptyTiers, LocalWithEmptyTiers)
        /\ Keys(merged) = Keys(Tier1) \cup Keys(Tier2) \cup Keys(Tier3)

\* C18's case: the top-level value is no mapping and the local file is
\* not valid JSON, while the project tier defines a server.
C18_Witness ==
    /\ mpc = "loaded"
    /\ globalFile.kind = "object"
    /\ ~globalFile.top.isdict
    /\ Tier2 # <<>>
    /\ localFile.kind = "invalid"
    /\ merged = Tier2

---------------------------------------------------------------------------
\* The Codex target: TOML generation and the marker-delimited merge
\* (adapters/codex.py).

MARKER_START == "# === AGENTSYNC START ==="
MARKER_END == "# === AGENTSYNC END ==="

NL == "\n"
BS == "\\"
DQ == "\""
\* "[mcp_servers." and "]", the table header of _server_to_toml, and " = ".
HDR == "[mcp_servers."
RB == "]"
EQ == " = "

\* c in s, for a one-token c.
Contains(s, c) == \E i \in DOMAIN s : s[i] = c

\* s.endswith(c), for a one-token c.
EndsWith(s, c) == s # <<>> /\ s[Len(s)] = c

\* The first position of c in s at or after from; 0 when there is none.
IndexFrom(s, c, from) ==
    IF \E i \in from..Len(s) : s[i] = c
    THEN CHOOSE i \in from..Len(s) :
            s[i] = c /\ \A j \in from..(i - 1) : s[j] # c
    ELSE 0

\* s.replace(c, r), for a one-token c.
RECURSIVE Replace(_, _, _)
Replace(s, c, r) ==
    IF s = <<>> THEN <<>>
    ELSE (IF Head(s) = c THEN r ELSE <<Head(s)>>) \o Replace(Tail(s), c, r)

\* sep.join(parts)
RECURSIVE Join(_, _)
Join(parts, sep) ==
    IF parts = <<>> THEN <<>>
    ELSE IF Len(parts) = 1 THEN parts[1]
    ELSE parts[1] \o sep \o Join(Tail(parts), sep)

\* _toml_value of a str: backslashes, then double quotes, are escaped.
_toml_value(val) ==
    LET escaped == Replace(Replace(val, BS, <<BS, BS>>), DQ, <<BS, DQ>>)
    IN <<DQ>> \o escaped \o <<DQ>>

\* _server_to_toml
_server_to_toml(name, config) ==
    LET safe_name == Replace(name, "-", <<"_">>)
        lines == <<(<<HDR>> \o safe_name \o <<RB>>)>> \o
                 [i \in DOMAIN config |->
                     <<config[i].k, EQ>> \o _toml_value(config[i].v)]
    IN Join(lines, <<NL>>) \o <<NL>>

\* generate_mcp: the managed block.
generate_mcp(d) ==
    LET lines == [i \in DOMAIN d |-> _server_to_toml(d[i].k, d[i].v.config)]
        inner == Join(lines, <<NL>>)
    IN <<MARKER_START, NL>> \o inner \o <<NL, MARKER_END, NL>>

\* The replacement template of re.sub: r"\\" stands for one backslash; a
\* backslash before a character that is no letter or digit is left alone.
RECURSIVE ExpandTemplate(_)
ExpandTemplate(t) ==
    IF t = <<>> THEN <<>>
    ELSE IF Head(t) = BS /\ Len(t) >= 2
         THEN (IF t[2] = BS THEN <<BS>> ELSE <<BS, t[2]>>)
                  \o ExpandTemplate(SubSeq(t, 3, Len(t)))
         ELSE <<Head(t)>> \o ExpandTemplate(Tail(t))

\* re.sub(MARKER_START .*? MARKER_END \n?, repl, text, flags=DOTALL) with the
\* template already expanded: every leftmost, shortest span from a start
\* marker to the next end marker, and one newline after it, is replaced.
RECURSIVE SubMarkers(_, _)
SubMarkers(text, repl) ==
    LET i == IndexFrom(text, MARKER_START, 1)
        j == IF i = 0 THEN 0 ELSE IndexFrom(text, MARKER_END, i + 1)
        e == IF j < Len(text) /\ text[j + 1] = NL THEN j + 1 ELSE j
    IN IF i = 0 \/ j = 0 THEN text
       ELSE SubSeq(text, 1, i - 1) \o repl
                \o SubMarkers(SubSeq(text, e + 1, Len(text)), repl)

\* A merge that pastes the block with no blank line before it.
MergeNoSeparator(f, managed_block) ==
    IF ~f.exists THEN managed_block
    ELSE IF Contains(f.text, MARKER_START) /\ Contains(f.text, MARKER_END)
         THEN SubMarkers(f.text, ExpandTemplate(managed_block))
         ELSE f.text \o <<NL>> \o managed_block

\* _merge_toml
_merge_toml(f, managed_block) ==
    IF ~f.exists THEN managed_block
    ELSE LET existing == f.text
         IN IF Contains(existing, MARKER_START) /\ Contains(existing, MARKER_END)
            THEN SubMarkers(existing, ExpandTemplate(managed_block))
            ELSE LET sep == IF EndsWith(existing, NL) THEN <<>> ELSE <<NL>>
                 IN existing \o sep \o <<NL>> \o managed_block

\* _extract_server_names: re.findall(r"\[mcp_servers\.(.+?)\]", content).
\* '.' matches no newline, and the name is at least one character.
RECURSIVE ExtractFrom(_, _)
ExtractFrom(content, from) ==
    LET i == IndexFrom(content, HDR, from)
        ends == {j \in (i + 2)..Len(content) :
                    /\ content[j] = RB
                    /\ \A m \in (i + 1)..(j - 1) : content[m] # NL}
    IN IF i = 0 THEN {}
       ELSE IF ends = {} THEN ExtractFrom(content, i + 1)
       ELSE LET j == CHOOSE x \in ends : \A y \in ends : x <= y
            IN {SubSeq(content, i + 1, j - 1)} \cup ExtractFrom(content, j + 1)

_extract_server_names(content) == ExtractFrom(content, 1)

---------------------------------------------------------------------------
\* Specification SpecToml: a registry is rendered by generate_mcp and the
\* block is written into the target file, MaxWrites times over.

\* Chunks of a pre-existing config.toml.
MaxChunks == 3
\* Servers of the registry handed to generate_mcp.
MaxCodexServers == 2
\* Writes of the same block.
MaxWrites == 2

NameDash == <<"a", "-", "b">>
NameUnder == <<"a", "_", "b">>
CodexNames == {NameA, NameDash, NameUnder}

\* A Windows path: a value that holds a backslash.
CfgPath == << [k |-> "command", v |-> <<"c", BS, "x">>] >>

CodexRegistries ==
    UNION {{d \in [1..n -> [k : CodexNames, cfg : {CfgX, CfgPath}]] :
                DistinctKeys(d)} : n \in 0..MaxCodexServers}

AsRegistry(d) ==
    [i \in DOMAIN d |->
        [k |-> d[i].k, v |-> [name |-> d[i].k, config |-> d[i].cfg]]]

\* User text, a newline, either marker, the header of an older server.
Chunks == {<<"u">>, <<NL>>, <<MARKER_START>>, <<MARKER_END>>, <<HDR, "o", RB>>}

RECURSIVE Flatten(_)
Flatten(cs) == IF cs = <<>> THEN <<>> ELSE Head(cs) \o Flatten(Tail(cs))

ExistingTexts ==
    UNION {{Flatten(cs) : cs \in [1..n -> Chunks]} : n \in 0..MaxChunks}

TomlInit ==
    /\ \E d \in CodexRegistries : cservers = AsRegistry(d)
    /\ file \in {NoFile} \cup {[exists |-> TRUE, text |-> t] : t \in ExistingTexts}
    /\ orig = file
    /\ prev = file
    /\ writes = 0
    /\ mcp_text = NoText
    /\ IdleMerge /\ IdleRules /\ IdleFilter /\ IdleEngine /\ IdleValidator
    /\ IdleBackup

\* CodexTargetAdapter.generate_mcp
GenerateMcp ==
    /\ ~mcp_text.set
    /\ mcp_text' = [set |-> TRUE, text |-> generate_mcp(cservers)]
    /\ UNCHANGED <<cservers, file, orig, prev, writes>>
    /\ UNCHANGED <<mergeVars, rulesVars, filterVars, engineVars, validatorVars>>
    /\ UNCHANGED backupVars

\* CodexTargetAdapter.write with dry_run false, no rules generated and no
\* backup directory: _merge_toml, then write_text.
CodexWrite ==
    /\ mcp_text.set
    /\ writes < MaxWrites
    /\ prev' = file
    /\ file' = [exists |-> TRUE, text |-> _merge_toml(file, mcp_text.text)]
    /\ writes' = writes + 1
    /\ UNCHANGED <<cservers, mcp_text, orig>>
    /\ UNCHANGED <<mergeVars, rulesVars, filterVars, engineVars, validatorVars>>
    /\ UNCHANGED backupVars

TomlNext == GenerateMcp \/ CodexWrite

SpecToml == TomlInit /\ [][TomlNext]_vars

---------------------------------------------------------------------------
\* Claims about the Codex merge.

HasMarkerPair(f) ==
    f.exists /\ Contains(f.text, MARKER_START) /\ Contains(f.text, MARKER_END)

\* C3: merging the same block a second time changes nothing:
\* merge(merge(X, B), B) = merge(X, B) for every prior state X.
C3_MergeIdempotent ==
    writes >= 2 => file = prev

\* The text after position j, less the one newline the block carries.
AfterMarker(x, j) ==
    IF j < Len(x) /\ x[j + 1] = NL
    THEN SubSeq(x, j + 2, Len(x)) ELSE SubSeq(x, j + 1, Len(x))

\* C4: when the existing content holds both markers, the result is the text
\* before a start marker, the new block, and the text after an end marker.
C4_ReplacesManagedSpan ==
    (writes = 1 /\ HasMarkerPair(orig)) =>
        \E i, j \in DOMAIN orig.text :
            /\ orig.text[i] = MARKER_START
            /\ orig.text[j] = MARKER_END
            /\ file.text = SubSeq(orig.text, 1, i - 1) \o mcp_text.text
                               \o AfterMarker(orig.text, j)

IsPrefix(p, s) == Len(p) <= Len(s) /\ SubSeq(s, 1, Len(p)) = p

IsSuffix(p, s) ==
    Len(p) <= Len(s) /\ SubSeq(s, Len(s) - Len(p) + 1, Len(s)) = p

\* C5: when the existing content lacks the marker pair, the result is the
\* existing content, a blank-line separator and the managed block.
C5_AppendsAfterBlankLine ==
    (writes = 1 /\ orig.exists /\ ~HasMarkerPair(orig)) =>
        /\ IsPrefix(orig.text, file.text)
        /\ IsSuffix(mcp_text.text, file.text)
        /\ \E sep \in {<<NL>>, <<NL, NL>>} :
              /\ file.text = orig.text \o sep \o mcp_text.text
              /\ IsSuffix(<<NL, NL>>, orig.text \o sep)

\* C5's case: content that holds one marker of the two, and no final
\* newline, has had the block appended.
C5_Witness ==
    /\ writes = 1
    /\ orig.exists
    /\ Contains(orig.text, MARKER_START)
    /\ ~Contains(orig.text, MARKER_END)
    /\ ~EndsWith(orig.text, NL)
    /\ file.text # orig.text

\* C6: with no target file the merge returns exactly the managed block, and
\* the names read back from the written file are the registry's names.
C6_NewFileRoundTrip ==
    (writes = 1 /\ ~orig.exists) =>
        /\ file.text = mcp_text.text
        /\ _extract_server_names(file.text) = Keys(cservers)

\* The block name _server_to_toml gives a server name, as read back from
\* the table header.
BlockName(name) ==
    CHOOSE n \in _extract_server_names(_server_to_toml(name, <<>>)) : TRUE

\* C23: the servers of one registry get distinct block names, so the
\* generated block holds as many block names as the registry has servers
\* and a block name stands for one server of the registry only.
C23_SanitizationReversible ==
    mcp_text.set =>
        /\ \A i, j \in DOMAIN cservers :
              i # j => BlockName(cservers[i].k) # BlockName(cservers[j].k)
        /\ Cardinality(_extract_server_names(mcp_text.text)) = Len(cservers)

---------------------------------------------------------------------------
\* Markdown sections (utils/markdown.py).  A Section is
\* [header, level, content], the content a str with its newlines.

\* content.split("\n")
RECURSIVE Split(_)
Split(s) ==
    LET i == IndexFrom(s, NL, 1)
    IN IF i = 0 THEN <<s>>
       ELSE <<SubSeq(s, 1, i - 1)>> \o Split(SubSeq(s, i + 1, Len(s)))

IsSpace(c) == c = " " \/ c = NL

\* str.strip()
RECURSIVE Strip(_)
Strip(s) ==
    IF s = <<>> THEN s
    ELSE IF IsSpace(Head(s)) THEN Strip(Tail(s))
    ELSE IF IsSpace(s[Len(s)]) THEN Strip(SubSeq(s, 1, Len(s) - 1))
    ELSE s

\* line.startswith(p)
StartsWith(s, p) == Len(p) <= Len(s) /\ SubSeq(s, 1, Len(p)) = p

\* A flush that leaves the header line out of the content.
FlushBodyOnly(sections, cur) ==
    IF cur.open
    THEN Append(sections, [header |-> cur.header, level |-> cur.level,
                           content |-> Join(Tail(cur.lines), <<NL>>)])
    ELSE sections

\* The flush of parse_markdown_sections: the open section, if any, is
\* appended.
Flush(sections, cur) ==
    IF cur.open
    THEN Append(sections, [header |-> cur.header, level |-> cur.level,
                           content |-> Join(cur.lines, <<NL>>)])
    ELSE sections

\* The loop of parse_markdown_sections over the lines, and the last flush.
RECURSIVE ParseLoop(_, _, _)
ParseLoop(lines, sections, cur) ==
    IF lines = <<>> THEN Flush(sections, cur)
    ELSE LET line == Head(lines)
         IN IF StartsWith(line, <<"#", "#", "#", " ">>)
            THEN ParseLoop(Tail(lines), Flush(sections, cur),
                     [open |-> TRUE, header |-> Strip(SubSeq(line, 5, Len(line))),
                      level |-> 3, lines |-> <<line>>])
            ELSE IF StartsWith(line, <<"#", "#", " ">>)
            THEN ParseLoop(Tail(lines), Flush(sections, cur),
                     [open |-> TRUE, header |-> Strip(SubSeq(line, 4, Len(line))),
                      level |-> 2, lines |-> <<line>>])
            ELSE IF cur.open
            THEN ParseLoop(Tail(lines), sections,
                     [cur EXCEPT !.lines = Append(cur.lines, line)])
            ELSE ParseLoop(Tail(lines), sections, cur)

parse_markdown_sections(content) ==
    ParseLoop(Split(content), <<>>,
              [open |-> FALSE, header |-> <<>>, level |-> 0, lines |-> <<>>])

\* load_rules on a readable CLAUDE.md: blank content gives no section.
load_rules(content) ==
    IF Strip(content) = <<>> THEN <<>> ELSE parse_markdown_sections(content)

\* A filter whose skip flag, once set, is never cleared.
RECURSIVE FilterLoopNoReset(_, _, _)
FilterLoopNoReset(sections, excl, skip_parent) ==
    IF sections = <<>> THEN <<>>
    ELSE LET section == Head(sections)
         IN IF section.level = 2 /\ section.header \in excl
            THEN FilterLoopNoReset(Tail(sections), excl, TRUE)
            ELSE IF skip_parent /\ section.level = 3
            THEN FilterLoopNoReset(Tail(sections), excl, skip_parent)
            ELSE IF section.header \in excl
            THEN FilterLoopNoReset(Tail(sections), excl, skip_parent)
            ELSE <<section>> \o FilterLoopNoReset(Tail(sections), excl, skip_parent)

\* The loop of filter_sections.
RECURSIVE FilterLoop(_, _, _)
FilterLoop(sections, excl, skip_parent) ==
    IF sections = <<>> THEN <<>>
    ELSE LET section == Head(sections)
         IN IF section.level = 2 /\ section.header \in excl
            THEN FilterLoop(Tail(sections), excl, TRUE)
            ELSE LET skip == IF section.level = 2 THEN FALSE ELSE skip_parent
                 IN IF skip /\ section.level = 3
                    THEN FilterLoop(Tail(sections), excl, skip)
                    ELSE IF section.header \in excl
                    THEN FilterLoop(Tail(sections), excl, skip)
                    ELSE <<section>> \o FilterLoop(Tail(sections), excl, skip)

filter_sections(sections, excl) == FilterLoop(sections, excl, FALSE)

\* A serialisation that puts nothing between two contents.
GenerateRulesUnseparated(sections) ==
    LET text == Join([i \in DOMAIN sections |-> sections[i].content], <<>>)
    IN IF text # <<>> THEN text \o <<NL>> ELSE <<>>

\* CodexTargetAdapter.generate_rules
generate_rules(sections) ==
    LET text == Join([i \in DOMAIN sections |-> sections[i].content],
                     <<NL, NL>>)
    IN IF text # <<>> THEN text \o <<NL>> ELSE <<>>

\* needle in content, on str.
HasSubstring(content, needle) ==
    \E i \in 1..(Len(content) - Len(needle) + 1) :
        SubSeq(content, i, i + Len(needle) - 1) = needle

\* validate.check_no_excluded_sections.  leaked is kept as a set: the
\* message lists it in the iteration order of exclude_set.  A passing
\* result has the default severity of ValidationResult.
check_no_excluded_sections(content, excl, label) ==
    LET leaked == {section_name \in excl :
                      \/ HasSubstring(content, <<"#", "#", " ">> \o section_name)
                      \/ HasSubstring(content,
                                      <<"#", "#", "#", " ">> \o section_name)}
    IN [name |-> <<label, " excluded sections">>,
        passed |-> leaked = {},
        leaked |-> leaked,
        severity |-> "error"]

---------------------------------------------------------------------------
\* Specification SpecRules: a rules document of at most MaxLines lines is
\* loaded and its sections are filtered, as SyncEngine.run does.

MaxLines == 4

HeaderA == <<"A">>
HeaderB == <<"B">>
HeaderAB == <<"A", "B">>

\* Major and minor headers of two names, a major header whose name starts
\* with another name, a line of text, a blank line.
DocLines ==
    {<<"#", "#", " ">> \o HeaderA, <<"#", "#", " ">> \o HeaderB,
     <<"#", "#", "#", " ">> \o HeaderA, <<"#", "#", "#", " ">> \o HeaderB,
     <<"#", "#", " ">> \o HeaderAB, <<"t">>, <<>>}

Documents ==
    UNION {{Join(ls, <<NL>>) : ls \in [1..n -> DocLines]} : n \in 1..MaxLines}

RulesInit ==
    /\ doc \in Documents
    /\ exclude_set \in SUBSET {HeaderA, HeaderB}
    /\ all_sections = <<>>
    /\ filtered = <<>>
    /\ section_check = NoCheck
    /\ rpc = "start"
    /\ IdleMerge /\ IdleToml /\ IdleFilter /\ IdleEngine /\ IdleValidator
    /\ IdleBackup

\* sync.py line 91: all_sections = self._source.load_rules()
LoadRules ==
    /\ rpc = "start"
    /\ all_sections' = load_rules(doc)
    /\ rpc' = "loaded"
    /\ UNCHANGED <<doc, exclude_set, filtered, section_check>>
    /\ UNCHANGED <<mergeVars, tomlVars, filterVars, engineVars, validatorVars>>
    /\ UNCHANGED backupVars

\* sync.py line 114: filtered = filter_sections(all_sections, exclude_set)
FilterSections ==
    /\ rpc = "loaded"
    /\ all_sections # <<>>
    /\ filtered' = filter_sections(all_sections, exclude_set)
    /\ rpc' = "filtered"
    /\ UNCHANGED <<doc, exclude_set, all_sections, section_check>>
    /\ UNCHANGED <<mergeVars, tomlVars, filterVars, engineVars, validatorVars>>
    /\ UNCHANGED backupVars

\* check_no_excluded_sections on the source document, or on the rules text
\* generated from the filtered sections, against rules.exclude_sections.
CheckNoExcludedSections ==
    /\ rpc \in {"loaded", "filtered"}
    /\ LET of == IF rpc = "loaded" THEN "source" ELSE "generated"
           content == IF rpc = "loaded" THEN doc ELSE generate_rules(filtered)
       IN section_check' =
              [of |-> of, content |-> content,
               finding |-> check_no_excluded_sections(content, exclude_set,
                                                      "rules")]
    /\ rpc' = "checked"
    /\ UNCHANGED <<doc, exclude_set, all_sections, filtered>>
    /\ UNCHANGED <<mergeVars, tomlVars, filterVars, engineVars, validatorVars>>
    /\ UNCHANGED backupVars

RulesNext == LoadRules \/ FilterSections \/ CheckNoExcludedSections

SpecRules == RulesInit /\ [][RulesNext]_vars

---------------------------------------------------------------------------
\* Claims about the section filter.

\* The parent of section i: the nearest major section before it, 0 if none.
Parent(ss, i) ==
    IF \E j \in 1..(i - 1) : ss[j].level = 2
    THEN CHOOSE j \in 1..(i - 1) :
            ss[j].level = 2 /\ \A m \in (j + 1)..(i - 1) : ss[m].level # 2
    ELSE 0

Removed(ss, excl, i) ==
    IF ss[i].level = 2
    THEN ss[i].header \in excl
    ELSE \/ ss[i].header \in excl
         \/ Parent(ss, i) # 0 /\ ss[Parent(ss, i)].header \in excl

\* The sections of ss that are not removed, in order.
RECURSIVE Survivors(_, _, _)
Survivors(ss, excl, i) ==
    IF i > Len(ss) THEN <<>>
    ELSE (IF Removed(ss, excl, i) THEN <<>> ELSE <<ss[i]>>)
             \o Survivors(ss, excl, i + 1)

\* C7: filter_sections returns, in input order, exactly the sections that
\* are not removed: a major section is removed iff its header is excluded,
\* a minor one iff its own header or its parent's header is excluded.
C7_FilterSections ==
    rpc = "filtered" => filtered = Survivors(all_sections, exclude_set, 1)

\* C7's case: an excluded major section took a minor child with it, and a
\* minor section excluded by name left a sibling in the result.
C7_Witness ==
    /\ rpc = "filtered"
    /\ \E i, j \in DOMAIN all_sections :
          /\ all_sections[i].level = 2
          /\ all_sections[i].header \in exclude_set
          /\ all_sections[j].level = 3
          /\ Parent(all_sections, j) = i
          /\ all_sections[j].header \notin exclude_set
    /\ \E i, j \in DOMAIN all_sections :
          /\ all_sections[i].level = 3
          /\ all_sections[j].level = 3
          /\ Parent(all_sections, i) = Parent(all_sections, j)
          /\ all_sections[i].header \in exclude_set
          /\ ~Removed(all_sections, exclude_set, j)

\* The level of a header line, 0 for any other line.
HeaderLevel(line) ==
    IF StartsWith(line, <<"#", "#", "#", " ">>) THEN 3
    ELSE IF StartsWith(line, <<"#", "#", " ">>) THEN 2
    ELSE 0

\* The positions of the header lines of ls from position i on, in order.
RECURSIVE HeaderPositions(_, _)
HeaderPositions(ls, i) ==
    IF i > Len(ls) THEN <<>>
    ELSE (IF HeaderLevel(ls[i]) # 0 THEN <<i>> ELSE <<>>)
             \o HeaderPositions(ls, i + 1)

---------------------------------------------------------------------------
\* The per-target filter (SyncEngine._filter_servers).

STDIO == <<"s", "t", "d", "i", "o">>
HTTP == <<"h", "t", "t", "p">>

\* The elements of a list, as set(...) and the set comprehensions take them.
Elems(l) == {l[i] : i \in DOMAIN l}

\* A filter that compares the exclusion list case-sensitively.
RECURSIVE FilterCaseSensitive(_, _, _)
FilterCaseSensitive(items, excl, protocols) ==
    IF items = <<>> THEN <<>>
    ELSE LET key == Head(items).k
             sc == Head(items).v
             matches == \/ STDIO \in protocols /\ is_stdio(sc)
                        \/ HTTP \in protocols /\ is_http(sc)
             rest == FilterCaseSensitive(Tail(items), excl, protocols)
         IN IF key \in excl THEN rest
            ELSE IF protocols # {} /\ ~matches THEN rest
            ELSE <<Head(items)>> \o rest

FilterServersCaseSensitive(d, cfg) ==
    IF ~cfg.present THEN d
    ELSE FilterCaseSensitive(d, Elems(cfg.exclude_servers),
                             {StrLower(p) : p \in Elems(cfg.protocols)})

\* A filter that wants every listed transport matched, not one of them.
RECURSIVE FilterAllTransports(_, _, _)
FilterAllTransports(items, excl, protocols) ==
    IF items = <<>> THEN <<>>
    ELSE LET key == Head(items).k
             sc == Head(items).v
             matches == /\ STDIO \in protocols => is_stdio(sc)
                        /\ HTTP \in protocols => is_http(sc)
             rest == FilterAllTransports(Tail(items), excl, protocols)
         IN IF StrLower(key) \in excl THEN rest
            ELSE IF protocols # {} /\ ~matches THEN rest
            ELSE <<Head(items)>> \o rest

FilterServersAllTransports(d, cfg) ==
    IF ~cfg.present THEN d
    ELSE FilterAllTransports(d, {StrLower(x) : x \in Elems(cfg.exclude_servers)},
                             {StrLower(p) : p \in Elems(cfg.protocols)})

\* The loop of _filter_servers over servers.items().
RECURSIVE FilterServersLoop(_, _, _)
FilterServersLoop(items, excl, protocols) ==
    IF items = <<>> THEN <<>>
    ELSE LET key == Head(items).k
             sc == Head(items).v
             matches == \/ STDIO \in protocols /\ is_stdio(sc)
                        \/ HTTP \in protocols /\ is_http(sc)
             rest == FilterServersLoop(Tail(items), excl, protocols)
         IN IF StrLower(key) \in excl THEN rest
            ELSE IF protocols # {} /\ ~matches THEN rest
            ELSE <<Head(items)>> \o rest

\* _filter_servers; cfg.present is false when config.targets has no entry
\* for the target (target_cfg is None).
_filter_servers(d, cfg) ==
    IF ~cfg.present THEN d
    ELSE FilterServersLoop(d, {StrLower(x) : x \in Elems(cfg.exclude_servers)},
                           {StrLower(p) : p \in Elems(cfg.protocols)})

---------------------------------------------------------------------------
\* The consistency check (validate.check_server_consistency).

\* ord(c) of the characters of the names.
CodePoint ==
    ("-" :> 45) @@ ("A" :> 65) @@ ("B" :> 66) @@ ("_" :> 95) @@ ("a" :> 97)
        @@ ("b" :> 98) @@ ("o" :> 111)

\* x < y on str.
RECURSIVE StrLess(_, _)
StrLess(x, y) ==
    IF y = <<>> THEN FALSE
    ELSE IF x = <<>> THEN TRUE
    ELSE IF Head(x) = Head(y) THEN StrLess(Tail(x), Tail(y))
    ELSE CodePoint[Head(x)] < CodePoint[Head(y)]

\* sorted(s) of a set of str.
RECURSIVE Sorted(_)
Sorted(s) ==
    IF s = {} THEN <<>>
    ELSE LET m == CHOOSE x \in s : \A y \in s : x = y \/ StrLess(x, y)
         IN <<m>> \o Sorted(s \ {m})

\* An expected-names loop that keeps servers of every transport.
RECURSIVE ExpectedNamesAnyTransport(_, _, _)
ExpectedNamesAnyTransport(items, excl, only_stdio) ==
    IF items = <<>> THEN {}
    ELSE LET k == Head(items).k
             rest == ExpectedNamesAnyTransport(Tail(items), excl, only_stdio)
         IN IF StrLower(k) \in {StrLower(e) : e \in excl} THEN rest
            ELSE {k} \cup rest

\* The loop that builds expected_names.
RECURSIVE ExpectedNames(_, _, _)
ExpectedNames(items, excl, only_stdio) ==
    IF items = <<>> THEN {}
    ELSE LET k == Head(items).k
             sc == Head(items).v
             rest == ExpectedNames(Tail(items), excl, only_stdio)
         IN IF StrLower(k) \in {StrLower(e) : e \in excl} THEN rest
            ELSE IF only_stdio /\ ~is_stdio(sc) THEN rest
            ELSE {k} \cup rest

\* The parts of the message: "missing N: ..." and "extra N: ...".
MessageParts(missing, extra) ==
    (IF missing # {}
     THEN <<[kind |-> "missing", n |-> Cardinality(missing),
             names |-> Sorted(missing)]>>
     ELSE <<>>)
    \o
    (IF extra # {}
     THEN <<[kind |-> "extra", n |-> Cardinality(extra),
             names |-> Sorted(extra)]>>
     ELSE <<>>)

\* The ValidationResult for given expected names.
ConsistencyResult(expected_names, actual, target_name) ==
    LET missing == expected_names \ actual
        extra == actual \ expected_names
        parts == MessageParts(missing, extra)
    IN IF missing # {}
       THEN [name |-> <<target_name, " server consistency">>,
             passed |-> FALSE,
             message |-> [present |-> <<>>, parts |-> parts],
             severity |-> "error"]
       ELSE [name |-> <<target_name, " server consistency">>,
             passed |-> TRUE,
             message |-> [present |-> <<Cardinality(actual),
                                        Cardinality(expected_names)>>,
                          parts |-> IF extra # {} THEN parts ELSE <<>>],
             severity |-> "info"]

\* A check that compares the exclusion set case-sensitively.
CheckCaseSensitive(exp, actual, target_name, excl, only_stdio) ==
    ConsistencyResult(
        {k \in ExpectedNames(exp, {}, only_stdio) : k \notin excl},
        actual, target_name)

check_server_consistency(exp, actual, target_name, excl, only_stdio) ==
    ConsistencyResult(ExpectedNames(exp, excl, only_stdio), actual, target_name)

---------------------------------------------------------------------------
\* Specification SpecFilter: a loaded registry of at most MaxFilterServers
\* servers is deduplicated and filtered for a target, and the loaded
\* registry is checked against names read back from the target's file, as
\* a target adapter's validate does.

MaxFilterServers == 2

CfgStdio == CfgX
CfgHttp == << [k |-> "url", v |-> <<"x">>] >>
CfgBoth == CfgX \o CfgHttp
\* Neither a command nor a url.
CfgNeither == << [k |-> "type", v |-> <<"x">>] >>

LoadedRegistries ==
    UNION {{d \in [1..n -> [k : MergeNames,
                           cfg : {CfgStdio, CfgHttp, CfgBoth, CfgNeither}]] :
                DistinctKeys(d)} : n \in 0..MaxFilterServers}

\* exclude_servers of the target.
ExcludeLists ==
    {<<>>, <<NameA>>, <<NameUA>>, <<NameB>>, <<NameUA, NameB>>}

\* protocols of the target: none, one transport, both, both with another
\* casing, a transport the filter does not know.
ProtocolLists ==
    {<<>>, <<STDIO>>, <<HTTP>>, <<STDIO, HTTP>>,
     <<HTTP, <<"S", "t", "d", "i", "o">>>>, <<<<"s", "s", "e">>>>}

TargetCfgs ==
    {NoTargetCfg} \cup
    [present : {TRUE}, exclude_servers : ExcludeLists, protocols : ProtocolLists]

FilterInit ==
    /\ \E d \in LoadedRegistries :
          /\ expected = AsRegistry(d)
          /\ servers = dedup_servers(AsRegistry(d))
    /\ target_cfg \in TargetCfgs
    /\ filtered_servers = <<>>
    /\ actual_names = {}
    /\ exclude = {}
    /\ stdio_only = FALSE
    /\ finding = NoFinding
    /\ fpc = "start"
    /\ IdleMerge /\ IdleToml /\ IdleRules /\ IdleEngine /\ IdleValidator
    /\ IdleBackup

\* sync.py line 104: filtered_servers = self._filter_servers(servers, name)
FilterServers ==
    /\ fpc = "start"
    /\ servers # <<>>
    /\ filtered_servers' = _filter_servers(servers, target_cfg)
    /\ fpc' = "filtered"
    /\ UNCHANGED <<servers, target_cfg, expected, actual_names, exclude,
                   stdio_only, finding>>
    /\ UNCHANGED <<mergeVars, tomlVars, rulesVars, engineVars, validatorVars>>
    /\ UNCHANGED backupVars

\* A target's validate: the names its file holds are checked against the
\* loaded registry with exclude = set(exclude_servers); stdio_only is the
\* adapter's choice.
CheckServerConsistency ==
    /\ fpc \in {"start", "filtered"}
    /\ \E actual \in SUBSET MergeNames, only_stdio \in BOOLEAN :
          /\ actual_names' = actual
          /\ stdio_only' = only_stdio
          /\ exclude' = Elems(target_cfg.exclude_servers)
          /\ finding' = check_server_consistency(
                 expected, actual, "codex",
                 Elems(target_cfg.exclude_servers), only_stdio)
    /\ fpc' = "checked"
    /\ UNCHANGED <<servers, target_cfg, filtered_servers, expected>>
    /\ UNCHANGED <<mergeVars, tomlVars, rulesVars, engineVars, validatorVars>>
    /\ UNCHANGED backupVars

FilterNext == FilterServers \/ CheckServerConsistency

SpecFilter == FilterInit /\ [][FilterNext]_vars

---------------------------------------------------------------------------
\* Claims about the per-target filter and the consistency check.

Filtered == fpc = "filtered"

\* The exclusion set and allow-list in effect, case-folded; none of either
\* when the target has no configuration entry.
LowerExcluded ==
    IF target_cfg.present
    THEN {StrLower(x) : x \in Elems(target_cfg.exclude_servers)} ELSE {}

LowerProtocols ==
    IF target_cfg.present
    THEN {StrLower(p) : p \in Elems(target_cfg.protocols)} ELSE {}

BothTransportsListed == STDIO \in LowerProtocols /\ HTTP \in LowerProtocols

HasTransport(e) == is_stdio(e.v) \/ is_http(e.v)

\* C8 as stated: with both 'stdio' and 'http' in the allow-list the filter
\* returns the registry it returns with an empty allow-list.
C8_BothTransportsNoOp ==
    (Filtered /\ BothTransportsListed) =>
        filtered_servers =
            _filter_servers(servers, [target_cfg EXCEPT !.protocols = <<>>])

\* C8 as amended: with both 'stdio' and 'http' in the allow-list the filter
\* returns what it returns with an empty allow-list, less the servers that
\* have neither a command nor a url.
C8_BothTransportsKeepTyped ==
    (Filtered /\ BothTransportsListed) =>
        filtered_servers =
            SelectSeq(_filter_servers(servers,
                                      [target_cfg EXCEPT !.protocols = <<>>]),
                      HasTransport)

\* C8's case: under an allow-list with both transports a server of one
\* transport passed and a server with neither was dropped.
C8_Witness ==
    /\ Filtered
    /\ BothTransportsListed
    /\ \E i \in DOMAIN filtered_servers :
          ~(is_http(filtered_servers[i].v) /\ is_stdio(filtered_servers[i].v))
    /\ \E i \in DOMAIN servers :
          /\ ~HasTransport(servers[i])
          /\ servers[i].k \notin LowerExcluded
          /\ ~HasKey(filtered_servers, servers[i].k)

\* Whether a server matches one of the listed transports.
MatchesListed(sc) ==
    \/ STDIO \in LowerProtocols /\ is_stdio(sc)
    \/ HTTP \in LowerProtocols /\ is_http(sc)

\* C9: _filter_servers returns exactly the entries whose name is not,
\* case-insensitively, in the exclusion set and that, under a non-empty
\* allow-list, match a listed transport; survivors keep key and definition;
\* with no exclusion and no allow-list the result is the input.
C9_FilterServers ==
    Filtered =>
        /\ DistinctKeys(filtered_servers)
        /\ \A i \in DOMAIN servers :
              HasKey(filtered_servers, servers[i].k) <=>
                  /\ StrLower(servers[i].k) \notin LowerExcluded
                  /\ LowerProtocols # {} => MatchesListed(servers[i].v)
        /\ \A i \in DOMAIN filtered_servers :
              /\ HasKey(servers, filtered_servers[i].k)
              /\ filtered_servers[i].v = Get(servers, filtered_servers[i].k)
        /\ (LowerExcluded = {} /\ LowerProtocols = {}) =>
              filtered_servers = servers

\* C9's case: a server was excluded by a name of another casing and
\* another one survived a non-empty allow-list.
C9_Witness ==
    /\ Filtered
    /\ \E i \in DOMAIN servers :
          /\ servers[i].k \notin Elems(target_cfg.exclude_servers)
          /\ StrLower(servers[i].k) \in LowerExcluded
          /\ ~HasKey(filtered_servers, servers[i].k)
    /\ LowerProtocols # {}
    /\ filtered_servers # <<>>

\* The expected identities of the check: the expected registry less the
\* names excluded case-insensitively, only stdio servers under stdio_only.
ExpectedSet ==
    {k \in Keys(expected) :
        /\ \A e \in exclude : StrLower(e) # StrLower(k)
        /\ stdio_only => is_stdio(Get(expected, k))}

\* The names a finding's message lists under a kind.
Listed(f, kind) ==
    UNION {Elems(f.message.parts[i].names) :
              i \in {j \in DOMAIN f.message.parts :
                        f.message.parts[j].kind = kind}}

\* C10: the finding fails, with severity 'error', iff an expected identity
\* is absent from actual_names; a failing message names every missing
\* identity; identities only in actual are listed as extra and never fail
\* the finding.
C10_ServerConsistency ==
    fpc = "checked" =>
        /\ (~finding.passed /\ finding.severity = "error")
               <=> (ExpectedSet \ actual_names # {})
        /\ finding.passed <=> (ExpectedSet \subseteq actual_names)
        /\ ~finding.passed => Listed(finding, "missing") = ExpectedSet \ actual_names
        /\ Listed(finding, "extra") = actual_names \ ExpectedSet

\* C10's case: an expected identity is missing, another name is extra, and
\* a server was excluded by a name of another casing.
C10_Witness ==
    /\ fpc = "checked"
    /\ ~finding.passed
    /\ actual_names \ ExpectedSet # {}
    /\ \E k \in Keys(expected) : k \notin exclude /\ k \notin ExpectedSet

\* The target configuration that gives _filter_servers the exclusion list
\* of the check and the allow-list that stands for stdio_only.
CheckAsTargetCfg ==
    [present |-> TRUE,
     exclude_servers |-> target_cfg.exclude_servers,
     protocols |-> IF stdio_only THEN <<STDIO>> ELSE <<>>]

\* C21: the expected names that check_server_consistency computes are the
\* keys _filter_servers returns for the same registry and exclusion set,
\* with the allow-list ['stdio'] under stdio_only and none otherwise.
C21_ExpectedIsFiltered ==
    fpc = "checked" =>
        /\ exclude = Elems(CheckAsTargetCfg.exclude_servers)
        /\ ExpectedNames(expected, exclude, stdio_only)
               = Keys(_filter_servers(expected, CheckAsTargetCfg))

\* C21's case: under stdio_only a server was excluded by a name of another
\* casing and a server without a command was dropped.
C21_Witness ==
    /\ fpc = "checked"
    /\ stdio_only
    /\ \E k \in Keys(expected) :
          k \notin exclude /\ StrLower(k) \in {StrLower(e) : e \in exclude}
    /\ \E k \in Keys(expected) :
          /\ StrLower(k) \notin {StrLower(e) : e \in exclude}
          /\ ~is_stdio(Get(expected, k))
          /\ k \notin ExpectedNames(expected, exclude, stdio_only)

---------------------------------------------------------------------------
\* File writing (utils/io.py, utils/backup.py).  The file system fs is
\* [disk, backups, now]: disk maps a path to [exists, text], backups is the
\* set of files [name, text] of the backup directory, now is the clock of
\* datetime.now() in whole seconds.

\* Two files of one name in two directories.
MCP_A == "a/mcp.json"
MCP_B == "b/mcp.json"

\* path.name: the last component of a path.
PathName(path) == IF path \in {MCP_A, MCP_B} THEN "mcp.json" ELSE path

\* backup_file: an existing file is copied to <name>.<timestamp>.bak in the
\* backup directory, over a file of that name if there is one.
backup_file(path, fs) ==
    IF ~fs.disk[path].exists THEN fs
    ELSE LET backup_name == [base |-> PathName(path), timestamp |-> fs.now]
         IN [fs EXCEPT !.backups =
                {b \in @ : b.name # backup_name}
                    \cup {[name |-> backup_name, text |-> fs.disk[path].text]}]

\* A _write that touches the disk whatever dry_run says.
WriteIgnoringDryRun(path, content, fs, backup_dir, dry_run) ==
    LET fs1 == IF backup_dir THEN backup_file(path, fs) ELSE fs
    IN [fs |-> [fs1 EXCEPT !.disk[path] = [exists |-> TRUE, text |-> content]],
        res |-> [path |-> path, written |-> ~dry_run,
                 bytes_written |-> Len(content),
                 message |-> <<"Written", Len(content)>>]]

\* _write: returns the file system after the call and the WriteResult.
\* backup_dir is true when a backup directory is configured; nbytes is the
\* length of the content; the message is its wording and nbytes.
_write(path, content, fs, backup_dir, dry_run) ==
    LET nbytes == Len(content)
    IN IF dry_run
       THEN LET msg == IF fs.disk[path].exists
                       THEN (IF fs.disk[path].text = content
                             THEN <<"no changes">>
                             ELSE <<"WOULD UPDATE", nbytes>>)
                       ELSE <<"WOULD CREATE", nbytes>>
            IN [fs |-> fs,
                res |-> [path |-> path, written |-> FALSE,
                         bytes_written |-> 0, message |-> msg]]
       ELSE LET fs1 == IF backup_dir THEN backup_file(path, fs) ELSE fs
            IN [fs |-> [fs1 EXCEPT !.disk[path] =
                            [exists |-> TRUE, text |-> content]],
                res |-> [path |-> path, written |-> TRUE,
                         bytes_written |-> nbytes,
                         message |-> <<"Written", nbytes>>]]

write_text(path, content, fs, backup_dir, dry_run) ==
    _write(path, content, fs, backup_dir, dry_run)

\* json.dumps of a str, of a dict whose values are already serialized,
\* and of {"mcpServers": {name: config}}; the indentation is left out.
LBRACE == "{"
RBRACE == "}"
COLON == ":"
COMMA == ","

json_string(s) ==
    <<DQ>> \o Replace(Replace(s, BS, <<BS, BS>>), DQ, <<BS, DQ>>) \o <<DQ>>

json_object(pairs) ==
    <<LBRACE>>
        \o Join([i \in DOMAIN pairs |->
                    json_string(pairs[i].k) \o <<COLON>> \o pairs[i].v],
                <<COMMA>>)
        \o <<RBRACE>>

json_dumps(data) ==
    LET cfg(c) == json_object([i \in DOMAIN c |->
                      [k |-> <<c[i].k>>, v |-> json_string(c[i].v)]])
        inner == json_object([i \in DOMAIN data.mcpServers |->
                      [k |-> data.mcpServers[i].k,
                       v |-> cfg(data.mcpServers[i].v)]])
    IN json_object(<<[k |-> <<"mcpServers">>, v |-> inner]>>)

\* write_json: the text json.dumps gives always parses back, so the
\* validation of lines 30-35 never fails.
write_json(path, data, fs, backup_dir, dry_run) ==
    _write(path, json_dumps(data) \o <<NL>>, fs, backup_dir, dry_run)

\* json.loads and set(data.get("mcpServers", {})): the keys of the object
\* under the top-level key "mcpServers".  st is [depth, open, s, top, keys]:
\* the nesting depth, whether a string is open and its characters so far,
\* the top-level key last read, the keys found.
RECURSIVE JsonScan(_, _, _)
JsonScan(text, i, st) ==
    IF i > Len(text)
    THEN [ok |-> st.depth = 0 /\ ~st.open /\ text # <<>>, keys |-> st.keys]
    ELSE LET c == text[i]
         IN IF st.open
            THEN IF c = BS
                 THEN IF i = Len(text) THEN [ok |-> FALSE, keys |-> {}]
                      ELSE JsonScan(text, i + 2,
                               [st EXCEPT !.s = Append(@, text[i + 1])])
                 ELSE IF c = DQ
                 THEN JsonScan(text, i + 1,
                          [st EXCEPT !.open = FALSE, !.s = <<>>,
                              !.top = IF st.depth = 1 THEN st.s ELSE @,
                              !.keys = IF st.depth = 2 /\ st.top = <<"mcpServers">>
                                       THEN @ \cup {st.s} ELSE @])
                 ELSE JsonScan(text, i + 1, [st EXCEPT !.s = Append(@, c)])
            ELSE IF c = DQ
                 THEN JsonScan(text, i + 1, [st EXCEPT !.open = TRUE])
                 ELSE IF c = LBRACE
                 THEN JsonScan(text, i + 1, [st EXCEPT !.depth = @ + 1])
                 ELSE IF c = RBRACE /\ st.depth > 0
                 THEN JsonScan(text, i + 1, [st EXCEPT !.depth = @ - 1])
                 ELSE IF c \in {COLON, COMMA, NL}
                 THEN JsonScan(text, i + 1, st)
                 ELSE [ok |-> FALSE, keys |-> {}]

json_server_names(text) ==
    JsonScan(text, 1, [depth |-> 0, open |-> FALSE, s |-> <<>>,
                       top |-> <<>>, keys |-> {}])

---------------------------------------------------------------------------
\* The target adapters (adapters/codex.py, adapters/antigravity.py).  An
\* adapter is [type, mcp_text, rules_text, mcp_data], the fields _mcp_text,
\* _rules_text and _mcp_data of the object, each [set |-> it is not None,
\* ...]; a TargetConfig is [present, type, config_path, rules_path,
\* mcp_path, exclude_servers, protocols], a path "" being unset.

CODEX == "codex"
ANTIGRAVITY == "antigravity"

NoData == [set |-> FALSE, data |-> [mcpServers |-> <<>>]]

\* The adapter objects as create_targets builds them.
NewAdapter(type) ==
    [type |-> type, mcp_text |-> NoText, rules_text |-> NoText,
     mcp_data |-> NoData]

\* AntigravityTargetAdapter.generate_mcp
antigravity_generate_mcp(d) ==
    [mcpServers |-> [i \in DOMAIN d |-> [k |-> d[i].k, v |-> d[i].v.config]]]

\* target.generate_mcp(filtered_servers), by adapter class.
AdapterGenerateMcp(ad, d) ==
    IF ad.type = CODEX
    THEN [ad EXCEPT !.mcp_text = [set |-> TRUE, text |-> generate_mcp(d)]]
    ELSE [ad EXCEPT !.mcp_data =
              [set |-> TRUE, data |-> antigravity_generate_mcp(d)]]

\* target.generate_rules(filtered), by adapter class: Antigravity keeps
\* nothing.
AdapterGenerateRules(ad, sections) ==
    IF ad.type = CODEX
    THEN [ad EXCEPT !.rules_text =
              [set |-> TRUE, text |-> generate_rules(sections)]]
    ELSE ad

\* CodexTargetAdapter.write.  fault = "write" makes the call raise before
\* it touches a file, fault = "write_rules" makes its second write_text
\* raise.  Returns the file system, the WriteResults, whether it raised
\* and the paths whose file it wrote.
codex_write(ad, tc, fs, backup_dir, dry_run, fault) ==
    LET do1 == ad.mcp_text.set /\ tc.config_path # ""
        w1 == write_text(tc.config_path,
                         _merge_toml(fs.disk[tc.config_path], ad.mcp_text.text),
                         fs, backup_dir, dry_run)
        fs1 == IF do1 THEN w1.fs ELSE fs
        r1 == IF do1 THEN <<w1.res>> ELSE <<>>
        do2 == ad.rules_text.set /\ tc.rules_path # ""
        w2 == write_text(tc.rules_path, ad.rules_text.text, fs1, backup_dir,
                         dry_run)
    IN IF fault = "write"
       THEN [fs |-> fs, results |-> <<>>, raised |-> TRUE, wrote |-> <<>>]
       ELSE IF fault = "write_rules" /\ do2
       THEN [fs |-> fs1, results |-> <<>>, raised |-> TRUE,
             wrote |-> IF do1 /\ ~dry_run THEN <<tc.config_path>> ELSE <<>>]
       ELSE [fs |-> IF do2 THEN w2.fs ELSE fs1,
             results |-> r1 \o (IF do2 THEN <<w2.res>> ELSE <<>>),
             raised |-> FALSE,
             wrote |-> (IF do1 /\ ~dry_run THEN <<tc.config_path>> ELSE <<>>)
                       \o (IF do2 /\ ~dry_run THEN <<tc.rules_path>> ELSE <<>>)]

\* AntigravityTargetAdapter.write
antigravity_write(ad, tc, fs, backup_dir, dry_run, fault) ==
    LET do1 == ad.mcp_data.set /\ tc.mcp_path # ""
        w1 == write_json(tc.mcp_path, ad.mcp_data.data, fs, backup_dir, dry_run)
    IN IF fault = "write"
       THEN [fs |-> fs, results |-> <<>>, raised |-> TRUE, wrote |-> <<>>]
       ELSE [fs |-> IF do1 THEN w1.fs ELSE fs,
             results |-> IF do1 THEN <<w1.res>> ELSE <<>>,
             raised |-> FALSE,
             wrote |-> IF do1 /\ ~dry_run THEN <<tc.mcp_path>> ELSE <<>>]

AdapterWrite(ad, tc, fs, backup_dir, dry_run, fault) ==
    IF ad.type = CODEX
    THEN codex_write(ad, tc, fs, backup_dir, dry_run, fault)
    ELSE antigravity_write(ad, tc, fs, backup_dir, dry_run, fault)

---------------------------------------------------------------------------
\* The sync run (SyncEngine.run).

\* The value of target_filter when no target is named.
NoFilter == "None"

TargetNames(targets) == [i \in DOMAIN targets |-> targets[i].name]

\* A lookup that answers with the configuration of the first target.
TargetCfgOfFirst(targets, name) == targets[1].tc

TargetCfg(targets, name) ==
    targets[CHOOSE i \in DOMAIN targets : targets[i].name = name].tc

\* A selection that takes the targets from the last one to the first.
SelectTargetsReversed(targets, target_filter) ==
    IF target_filter # NoFilter
    THEN IF \E i \in DOMAIN targets : targets[i].name = target_filter
         THEN [ok |-> TRUE, names |-> <<target_filter>>]
         ELSE [ok |-> FALSE, names |-> <<>>]
    ELSE [ok |-> TRUE,
          names |-> [i \in DOMAIN targets |->
                        targets[Len(targets) + 1 - i].name]]

\* A selection that falls back to every target when the filter names
\* none of them.
SelectTargetsAnyway(targets, target_filter) ==
    IF target_filter # NoFilter
          /\ \E i \in DOMAIN targets : targets[i].name = target_filter
    THEN [ok |-> TRUE, names |-> <<target_filter>>]
    ELSE [ok |-> TRUE, names |-> TargetNames(targets)]

\* run, lines 70-77: the targets to process; ok is false when the filter
\* names a target that is not configured.
SelectTargets(targets, target_filter) ==
    IF target_filter # NoFilter
    THEN IF \E i \in DOMAIN targets : targets[i].name = target_filter
         THEN [ok |-> TRUE, names |-> <<target_filter>>]
         ELSE [ok |-> FALSE, names |-> <<>>]
    ELSE [ok |-> TRUE, names |-> TargetNames(targets)]

\* ClaudeSourceAdapter.load_rules on the rules file, [exists, text].
load_rules_file(f) == IF ~f.exists THEN <<>> ELSE load_rules(f.text)

\* An except clause that records the message and leaves success alone.
HandleExceptionMessageOnly(tr, exc) == [tr EXCEPT !.errors = Append(@, exc)]

\* An except clause that records nothing.
HandleExceptionSilently(tr, exc) == tr

\* run, lines 125-128: the except clause.
HandleException(tr, exc) ==
    [tr EXCEPT !.success = FALSE, !.errors = Append(@, exc)]

Call(op, arg) == [op |-> op, arg |-> arg]

\* run, lines 96-130: one iteration of the loop over target_names, for the
\* target name with adapter ad.  fault names the call that raises, "none"
\* when none does; str(exc) is that name.  Returns the adapter and the
\* file system after the iteration, the TargetSyncResult, the calls made,
\* the call that raised, and the registry and the section list given to
\* generate_mcp and generate_rules (a sequence of one value, empty when the
\* generator was not called).
RunTarget(name, ad, fs, servers_, sections, cfg, fl, fault) ==
    LET tc == TargetCfg(cfg.targets, name)
        do_mcp == ~fl.rules_only /\ servers_ # <<>>
        mcp_raises == do_mcp /\ fault = "generate_mcp"
        ad1 == IF do_mcp /\ ~mcp_raises
               THEN AdapterGenerateMcp(ad, _filter_servers(servers_, tc))
               ELSE ad
        do_rules == ~mcp_raises /\ ~fl.mcp_only /\ sections # <<>>
        rules_raises == do_rules /\ fault = "generate_rules"
        ad2 == IF do_rules /\ ~rules_raises
               THEN AdapterGenerateRules(ad1,
                        filter_sections(sections, Elems(cfg.exclude_sections)))
               ELSE ad1
        do_write == ~mcp_raises /\ ~rules_raises
        w == AdapterWrite(ad2, tc, fs, cfg.backup, fl.dry_run, fault)
        failed == mcp_raises \/ rules_raises \/ (do_write /\ w.raised)
        tr0 == [target_name |-> name, success |-> TRUE, writes |-> <<>>,
                errors |-> <<>>]
    IN [ad |-> ad2,
        fs |-> IF do_write THEN w.fs ELSE fs,
        tr |-> IF failed THEN HandleException(tr0, fault)
               ELSE [tr0 EXCEPT !.writes = w.results],
        calls |-> (IF do_mcp THEN <<Call("_filter_servers", name),
                                    Call("generate_mcp", name)>> ELSE <<>>)
                  \o (IF do_rules THEN <<Call("filter_sections", name),
                                         Call("generate_rules", name)>> ELSE <<>>)
                  \o (IF do_write
                      THEN <<Call("write", name)>>
                               \o [i \in DOMAIN w.wrote |->
                                      Call("path.write_text", w.wrote[i])]
                      ELSE <<>>),
        raised |-> IF failed THEN fault ELSE "none",
        handed |-> [target_name |-> name,
                    servers |-> IF do_mcp THEN <<_filter_servers(servers_, tc)>>
                                ELSE <<>>,
                    sections |-> IF do_rules
                                 THEN <<filter_sections(
                                            sections,
                                            Elems(cfg.exclude_sections))>>
                                 ELSE <<>>]]

---------------------------------------------------------------------------
\* Specification SpecEngine: an engine over a Codex and an Antigravity
\* target is run MaxRuns times with any arguments; any generate or write
\* call may raise; a returned run may be followed by a validation run over
\* freshly created adapters.  Each run takes place in a second of its own
\* (the clock of a run is its number); SpecBackup lets the clock stand.

MaxRuns == 2

CONFIG_TOML == "config.toml"
AGENTS_MD == "AGENTS.md"
MCP_JSON == "mcp.json"
Paths == {CONFIG_TOML, AGENTS_MD, MCP_JSON}

Server(name, cfg) == [k |-> name, v |-> cfg, isdict |-> TRUE]
Mapping(d) == [isdict |-> TRUE, d |-> d]
GlobalObject(top, proj) == [kind |-> "object", top |-> top, proj |-> proj]
LocalObject(d) == [kind |-> "object", servers |-> Mapping(d)]
NoGlobal == [kind |-> "missing", top |-> NoValue, proj |-> NoValue]
NoLocal == [kind |-> "missing", servers |-> NoValue]

\* The server sources: none; one server whose name has a capital; one
\* whose name has a dash; a stdio and an http server in two tiers.
ServerSources ==
    {<<NoGlobal, NoLocal>>,
     <<GlobalObject(Mapping(<<Server(NameUA, CfgStdio)>>), Mapping(<<>>)),
       NoLocal>>,
     <<NoGlobal, LocalObject(<<Server(NameDash, CfgStdio)>>)>>,
     <<GlobalObject(Mapping(<<Server(NameA, CfgStdio)>>), Mapping(<<>>)),
       LocalObject(<<Server(NameB, CfgHttp)>>)>>}

\* CLAUDE.md: missing, or a major section with a minor one.
RulesFiles ==
    {NoFile,
     [exists |-> TRUE,
      text |-> Join(<<<<"#", "#", " ">> \o HeaderA, <<"t">>,
                      <<"#", "#", "#", " ">> \o HeaderB>>, <<NL>>)]}

CodexCfg(excl, protocols) ==
    [present |-> TRUE, type |-> CODEX, config_path |-> CONFIG_TOML,
     rules_path |-> AGENTS_MD, mcp_path |-> "",
     exclude_servers |-> excl, protocols |-> protocols]

AntigravityCfg(excl, protocols) ==
    [present |-> TRUE, type |-> ANTIGRAVITY, config_path |-> "",
     rules_path |-> "", mcp_path |-> MCP_JSON,
     exclude_servers |-> excl, protocols |-> protocols]

\* Two configurations: no filter and backups; or the other target order,
\* an excluded server, the major section excluded and no backups.
EngineConfigs ==
    {[targets |-> <<[name |-> CODEX, tc |-> CodexCfg(<<>>, <<>>)],
                    [name |-> ANTIGRAVITY,
                     tc |-> AntigravityCfg(<<>>, <<STDIO>>)]>>,
      exclude_sections |-> <<>>, backup |-> TRUE],
     [targets |-> <<[name |-> ANTIGRAVITY, tc |-> AntigravityCfg(<<>>, <<>>)],
                    [name |-> CODEX, tc |-> CodexCfg(<<NameB>>, <<>>)]>>,
      exclude_sections |-> <<HeaderA>>, backup |-> FALSE]}

\* The target files before the first run: none; or a config.toml with
\* user text and the block an earlier sync of a server "o" left, an older
\* AGENTS.md and an mcp.json that is no JSON.
OldServers == <<[k |-> <<"o">>, v |-> [name |-> <<"o">>, config |-> CfgStdio]]>>

InitialDisks ==
    {[p \in Paths |-> NoFile],
     (CONFIG_TOML :> [exists |-> TRUE,
                      text |-> <<"u", NL>> \o generate_mcp(OldServers)])
        @@ (AGENTS_MD :> [exists |-> TRUE, text |-> <<"t", NL>>])
        @@ (MCP_JSON :> [exists |-> TRUE, text |-> <<"u">>])}

\* The filter values: none, a configured target, an unknown one.
FilterValues == {NoFilter, CODEX, "nope"}

FlagSets ==
    [dry_run : BOOLEAN, mcp_only : BOOLEAN, rules_only : BOOLEAN,
     target_filter : FilterValues]

\* The calls of an iteration that can raise.
Faults == {"none", "generate_mcp", "generate_rules", "write"}

EngineInit ==
    /\ \E s \in ServerSources, r \in RulesFiles :
          source = [global |-> s[1], local |-> s[2], rules |-> r]
    /\ _config \in EngineConfigs
    /\ adapters = [n \in {CODEX, ANTIGRAVITY} |-> NewAdapter(n)]
    /\ disk \in InitialDisks
    /\ backups = {}
    /\ flags = NoFlags
    /\ target_names = <<>>
    /\ run_servers = <<>>
    /\ run_sections = <<>>
    /\ idx = 0
    /\ result = NoResult
    /\ calls = <<>>
    /\ raised = <<>>
    /\ handed = <<>>
    /\ disk0 = disk
    /\ backups0 = {}
    /\ adapters0 = adapters
    /\ runs = 0
    /\ epc = "ready"
    /\ IdleMerge /\ IdleToml /\ IdleRules /\ IdleFilter /\ IdleValidator
    /\ IdleBackup

\* run, lines 53-92: the arguments are bound and the targets selected; an
\* unknown target_filter returns at once; otherwise the servers are loaded
\* and deduplicated and the sections loaded, each unless its phase is
\* skipped.
StartRun ==
    /\ epc \in {"ready", "returned"}
    /\ runs < MaxRuns
    /\ \E fl \in FlagSets :
          LET sel == SelectTargets(_config.targets, fl.target_filter)
              load_s == sel.ok /\ ~fl.rules_only
              load_r == sel.ok /\ ~fl.mcp_only
          IN /\ flags' = fl
             /\ target_names' = sel.names
             /\ result' = [success |-> sel.ok, dry_run |-> fl.dry_run,
                           target_results |-> <<>>]
             /\ run_servers' =
                    IF load_s
                    THEN dedup_servers(load_servers(source.global, source.local))
                    ELSE <<>>
             /\ run_sections' =
                    IF load_r THEN load_rules_file(source.rules) ELSE <<>>
             /\ calls' =
                    (IF load_s THEN <<Call("load_servers", "source"),
                                      Call("dedup_servers", "source")>>
                     ELSE <<>>)
                    \o (IF load_r THEN <<Call("load_rules", "source")>>
                        ELSE <<>>)
             /\ epc' = IF sel.ok THEN "loaded" ELSE "returned"
    /\ runs' = runs + 1
    /\ idx' = 1
    /\ raised' = <<>>
    /\ handed' = <<>>
    /\ disk0' = disk
    /\ backups0' = backups
    /\ adapters0' = adapters
    /\ report' = NoReport
    /\ UNCHANGED <<source, _config, adapters, disk, backups>>
    /\ UNCHANGED <<vtargets, vfilter, vnames, vidx, vpc>>
    /\ UNCHANGED <<mergeVars, tomlVars, rulesVars, filterVars>>
    /\ UNCHANGED backupVars

\* run, lines 95-134: one iteration of the loop, in which one call may
\* raise; after the last one the result is returned.
ProcessTarget ==
    /\ epc = "loaded"
    /\ idx <= Len(target_names)
    /\ \E fault \in Faults :
          LET name == target_names[idx]
              o == RunTarget(name, adapters[name],
                             [disk |-> disk, backups |-> backups, now |-> runs],
                             run_servers, run_sections, _config, flags, fault)
          IN /\ o.raised = fault
             /\ adapters' = [adapters EXCEPT ![name] = o.ad]
             /\ disk' = o.fs.disk
             /\ backups' = o.fs.backups
             /\ result' = [result EXCEPT
                              !.target_results = Append(@, o.tr),
                              !.success = IF o.tr.success THEN @ ELSE FALSE]
             /\ calls' = calls \o o.calls
             /\ raised' = Append(raised, fault)
             /\ handed' = Append(handed, o.handed)
    /\ idx' = idx + 1
    /\ epc' = IF idx = Len(target_names) THEN "returned" ELSE "loaded"
    /\ UNCHANGED <<source, _config, flags, target_names, run_servers,
                   run_sections, disk0, backups0, adapters0, runs>>
    /\ UNCHANGED <<mergeVars, tomlVars, rulesVars, filterVars, validatorVars>>
    /\ UNCHANGED backupVars

---------------------------------------------------------------------------
\* The validation run (Validator.run) and the adapters' validate.

\* ValidationResult; severity defaults to "error".
Finding(name, passed, message, severity) ==
    [name |-> name, passed |-> passed, severity |-> severity,
     message |-> message]

\* Validator.run, lines 180-183: the findings of one target are appended;
\* a failed finding of severity "error" fails the report.
RECURSIVE AddFindings(_, _)
AddFindings(rep, vr_list) ==
    IF vr_list = <<>> THEN rep
    ELSE LET vr == Head(vr_list)
         IN AddFindings(
                [passed |-> IF ~vr.passed /\ vr.severity = "error"
                            THEN FALSE ELSE rep.passed,
                 results |-> Append(rep.results, vr)],
                Tail(vr_list))

\* An iteration that fails the report on any failed finding.
ValidateTargetStrict(rep, name, o) ==
    IF o.raises
    THEN [passed |-> FALSE,
          results |-> Append(rep.results,
                         Finding(<<name, " validation">>, FALSE, o.exc, "error"))]
    ELSE [passed |-> rep.passed /\ \A i \in DOMAIN o.results : o.results[i].passed,
          results |-> rep.results \o o.results]

\* Validator.run, lines 177-192: one iteration of the loop.  o is what the
\* target's validate() does: [raises, exc, results].
ValidateTarget(rep, name, o) ==
    IF o.raises
    THEN [passed |-> FALSE,
          results |-> Append(rep.results,
                         Finding(<<name, " validation">>, FALSE, o.exc, "error"))]
    ELSE AddFindings(rep, o.results)

\* Validator.run, lines 161-173: the unknown target filter.
UnknownTargetReport(target_filter) ==
    [passed |-> FALSE,
     results |-> <<Finding("target filter", FALSE,
                           <<"Unknown target", target_filter>>, "error")>>]

RECURSIVE ReportLoop(_, _, _)
ReportLoop(names, validate, rep) ==
    IF names = <<>> THEN rep
    ELSE ReportLoop(Tail(names), validate,
                    ValidateTarget(rep, Head(names), validate[Head(names)]))

\* Validator.run over targets whose validate() gives validate[name].
validator_run(targets, target_filter, validate) ==
    LET sel == SelectTargets(targets, target_filter)
    IN IF ~sel.ok THEN UnknownTargetReport(target_filter)
       ELSE ReportLoop(sel.names, validate, NoReport)

Returns(results) == [raises |-> FALSE, exc |-> "", results |-> results]

\* CodexTargetAdapter.validate
codex_validate(tc, dsk, src) ==
    IF tc.config_path # "" /\ dsk[tc.config_path].exists
    THEN LET content == dsk[tc.config_path].text
         IN IF Contains(content, MARKER_START) /\ Contains(content, MARKER_END)
            THEN <<check_server_consistency(
                       load_servers(src.global, src.local),
                       _extract_server_names(content), "codex",
                       Elems(tc.exclude_servers), FALSE)>>
            ELSE <<Finding("codex markers", TRUE,
                           "No agentsync markers found in config.toml",
                           "warning")>>
    ELSE <<Finding("codex config file", TRUE,
                   "Config file does not exist yet", "info")>>

\* AntigravityTargetAdapter.validate: a file that is no JSON gives no name.
antigravity_validate(tc, dsk, src) ==
    IF tc.mcp_path # "" /\ dsk[tc.mcp_path].exists
    THEN LET parsed == json_server_names(dsk[tc.mcp_path].text)
             actual == IF parsed.ok THEN parsed.keys ELSE {}
         IN <<check_server_consistency(
                  load_servers(src.global, src.local), actual, "antigravity",
                  Elems(tc.exclude_servers), TRUE)>>
    ELSE <<Finding("antigravity mcp file", TRUE,
                   "MCP file does not exist yet", "info")>>

\* target.validate(), by adapter class.
AdapterValidate(tc, dsk, src) ==
    Returns(IF tc.type = CODEX THEN codex_validate(tc, dsk, src)
            ELSE antigravity_validate(tc, dsk, src))

\* Validator.run with no target filter over adapters created anew from the
\* configuration, after a run returned.
Validate ==
    /\ epc = "returned"
    /\ report' = validator_run(
           _config.targets, NoFilter,
           [n \in {CODEX, ANTIGRAVITY} |->
               AdapterValidate(TargetCfg(_config.targets, n), disk, source)])
    /\ epc' = "validated"
    /\ UNCHANGED <<source, _config, adapters, disk, backups, flags,
                   target_names, run_servers, run_sections, idx, result,
                   calls, raised, handed, disk0, backups0, adapters0,
                   runs>>
    /\ UNCHANGED <<vtargets, vfilter, vnames, vidx, vpc>>
    /\ UNCHANGED <<mergeVars, tomlVars, rulesVars, filterVars>>
    /\ UNCHANGED backupVars

EngineNext == StartRun \/ ProcessTarget \/ Validate

SpecEngine == EngineInit /\ [][EngineNext]_vars

---------------------------------------------------------------------------
\* Claims about the sync run.

\* run, lines 95-132, as one computation: the loop over names from the
\* adapters ads and the file system fs, the call faults[i] raising in
\* iteration i.  Returns the target results, the adapters and the file
\* system after the loop.
RECURSIVE RunLoop(_, _, _, _, _)
RunLoop(names, faults, ads, fs, acc) ==
    IF names = <<>> THEN [results |-> acc, ads |-> ads, fs |-> fs]
    ELSE LET name == Head(names)
             o == RunTarget(name, ads[name], fs, run_servers, run_sections,
                            _config, flags, Head(faults))
         IN RunLoop(Tail(names), Tail(faults),
                    [ads EXCEPT ![name] = o.ad], o.fs, Append(acc, o.tr))

NoFaults == [i \in DOMAIN target_names |-> "none"]

\* The current run, had no call raised.
UnfailedRun ==
    RunLoop(target_names, NoFaults, adapters0,
            [disk |-> disk0, backups |-> backups0, now |-> runs], <<>>)

UnknownFilter ==
    /\ flags.target_filter # NoFilter
    /\ \A i \in DOMAIN _config.targets :
          _config.targets[i].name # flags.target_filter

\* C11: when a run has returned, every selected target has a result; a
\* target one of whose generate or write calls raised has success = false
\* and the exception's message as its errors; every other target has the
\* result it has in the run where no call raises.
C11_FailureIsolated ==
    (epc = "returned" /\ ~UnknownFilter) =>
        /\ Len(result.target_results) = Len(target_names)
        /\ \A i \in DOMAIN target_names :
              LET tr == result.target_results[i]
              IN /\ tr.target_name = target_names[i]
                 /\ raised[i] # "none" =>
                       ~tr.success /\ tr.errors = <<raised[i]>>
                 /\ raised[i] = "none" => tr = UnfailedRun.results[i]

\* C11's case: the first of two targets failed and the second one wrote
\* a file.
C11_Witness ==
    /\ epc = "returned"
    /\ Len(target_names) = 2
    /\ raised[1] # "none"
    /\ raised[2] = "none"
    /\ ~result.success
    /\ \E i \in DOMAIN result.target_results[2].writes :
          result.target_results[2].writes[i].written

\* C12: a run whose target_filter names no configured target returns
\* success = false and no target result, having made no call on the source
\* or on a target and changed no file, backup or adapter.
C12_UnknownFilterAborts ==
    UnknownFilter =>
        /\ epc \in {"returned", "validated"}
        /\ ~result.success
        /\ result.target_results = <<>>
        /\ calls = <<>>
        /\ disk = disk0
        /\ backups = backups0
        /\ adapters = adapters0

\* C12's case: a second run on an engine that has generated text named
\* an unknown target.
C12_Witness ==
    /\ UnknownFilter
    /\ epc = "returned"
    /\ runs = 2
    /\ adapters[CODEX].mcp_text.set
    /\ disk[CONFIG_TOML].exists

\* C13: a validation run that follows a successful run over all targets
\* with dry_run false, the source and the configuration being the same,
\* passes.
C13_SyncThenValidatePasses ==
    (/\ epc = "validated"
     /\ result.success
     /\ ~flags.dry_run
     /\ flags.target_filter = NoFilter) => report.passed

\* C14: during and after a run with dry_run true the files and the backups
\* are those the run started with, and every write outcome has written =
\* false.
C14_DryRunTouchesNothing ==
    (flags.dry_run /\ epc # "ready") =>
        /\ disk = disk0
        /\ backups = backups0
        /\ \A i \in DOMAIN result.target_results :
           \A j \in DOMAIN result.target_results[i].writes :
              ~result.target_results[i].writes[j].written

\* C14's case: with backups enabled a dry run reported that it would
\* update a file that exists.
C14_Witness ==
    /\ flags.dry_run
    /\ epc = "returned"
    /\ _config.backup
    /\ \E i \in DOMAIN result.target_results :
       \E j \in DOMAIN result.target_results[i].writes :
          LET w == result.target_results[i].writes[j]
          IN w.message[1] = "WOULD UPDATE" /\ disk[w.path].exists

Called(op) == \E i \in DOMAIN calls : calls[i].op = op

Wrote(paths) ==
    \E i \in DOMAIN calls :
        calls[i].op = "path.write_text" /\ calls[i].arg \in paths

\* C15: a run with rules_only calls neither load_servers nor generate_mcp
\* and writes no server-definition file; a run with mcp_only calls neither
\* load_rules nor generate_rules and writes no rules file.
C15_OnlyFlagsSkipPhase ==
    /\ flags.rules_only =>
          /\ ~Called("load_servers")
          /\ ~Called("generate_mcp")
          /\ ~Wrote({CONFIG_TOML, MCP_JSON})
    /\ flags.mcp_only =>
          /\ ~Called("load_rules")
          /\ ~Called("generate_rules")
          /\ ~Wrote({AGENTS_MD})

FreshAdapters == [n \in DOMAIN adapters |-> NewAdapter(n)]

\* The current run on adapters created anew, the same calls raising.
FreshRun ==
    RunLoop(target_names, raised, FreshAdapters,
            [disk |-> disk0, backups |-> backups0, now |-> runs], <<>>)

\* C19: a run returns the target results and leaves the files that it
\* would on adapters created anew, whatever runs came before it.
C19_NoStateBetweenRuns ==
    (epc = "returned" /\ ~UnknownFilter) =>
        /\ result.target_results = FreshRun.results
        /\ disk = FreshRun.fs.disk

\* The sections the run hands a target's generate_rules: none when the
\* source has no section or the filter leaves none.
SectionsHanded ==
    filter_sections(run_sections, Elems(_config.exclude_sections))

\* C24: when a run that includes the rules phase has no section to hand to
\* generate_rules, the rules text generated from them is the empty string
\* and the run creates or overwrites no rules file.
C24_EmptySectionsNoRulesFile ==
    (epc = "returned" /\ ~UnknownFilter /\ ~flags.mcp_only
        /\ SectionsHanded = <<>>) =>
        /\ generate_rules(SectionsHanded) = <<>>
        /\ ~Wrote({AGENTS_MD})
        /\ disk[AGENTS_MD] = disk0[AGENTS_MD]

\* The calls of the run on a target, in the order the loop body makes them.
OpRank ==
    ("_filter_servers" :> 1) @@ ("generate_mcp" :> 2)
        @@ ("filter_sections" :> 3) @@ ("generate_rules" :> 4) @@ ("write" :> 5)

IsTargetCall(c) == c.op \in DOMAIN OpRank

TargetCalls == SelectSeq(calls, IsTargetCall)

\* The position of a target in target_names.
Position(name) == CHOOSE i \in DOMAIN target_names : target_names[i] = name

\* C25: the targets are taken in the order of the configured mapping; of
\* two calls of a run the earlier one is on an earlier target, or on the
\* same target and earlier in filter, generate_mcp, generate_rules, write;
\* a file is written right after its target's write call; every target a
\* call was made on has its result recorded before a call on the next one;
\* and target_results lists the targets in the order of target_names.
C25_SequentialInOrder ==
    (epc \in {"loaded", "returned"} /\ ~UnknownFilter) =>
        /\ flags.target_filter = NoFilter =>
               target_names = TargetNames(_config.targets)
        /\ \A i, j \in DOMAIN TargetCalls :
               i < j =>
                  \/ Position(TargetCalls[i].arg) < Position(TargetCalls[j].arg)
                  \/ /\ TargetCalls[i].arg = TargetCalls[j].arg
                     /\ OpRank[TargetCalls[i].op] < OpRank[TargetCalls[j].op]
        /\ \A i \in DOMAIN calls :
               calls[i].op = "path.write_text" =>
                  \E j \in 1..(i - 1) :
                     /\ calls[j].op = "write"
                     /\ \A m \in (j + 1)..(i - 1) : calls[m].op = "path.write_text"
        /\ \A i \in DOMAIN TargetCalls :
               Position(TargetCalls[i].arg) <= Len(result.target_results)
        /\ \A i \in DOMAIN result.target_results :
               result.target_results[i].target_name = target_names[i]
        /\ epc = "returned" =>
               Len(result.target_results) = Len(target_names)

\* C25's case: a run over two targets has returned after all five calls on
\* the first target and a call that raised on the second.
C25_Witness ==
    /\ epc = "returned"
    /\ Len(target_names) = 2
    /\ \A op \in DOMAIN OpRank :
          \E i \in DOMAIN calls :
             calls[i] = Call(op, target_names[1])
    /\ raised[2] = "generate_rules"
    /\ Wrote(Paths)

\* Every target result fails iff it has an error, and then has no write.
ErrorsIffFailed ==
    \A i \in DOMAIN result.target_results :
        LET tr == result.target_results[i]
        IN /\ ~tr.success <=> tr.errors # <<>>
           /\ ~tr.success => tr.writes = <<>>

AllTargetsSucceeded ==
    \A i \in DOMAIN result.target_results : result.target_results[i].success

\* C27 as stated: the success of a returned run is the conjunction of the
\* successes of its target results; a target result fails iff its errors
\* are not empty, and then its writes are empty.
C27_SuccessIsConjunction ==
    epc = "returned" =>
        /\ result.success <=> AllTargetsSucceeded
        /\ ErrorsIffFailed

\* C27 as amended: the same for a run whose target filter is none or names
\* a configured target; a run whose filter names no configured target has
\* no target result and success = false.
C27_SuccessIsConjunctionOrAbort ==
    epc = "returned" =>
        /\ ~UnknownFilter => (result.success <=> AllTargetsSucceeded)
        /\ UnknownFilter => (~result.success /\ result.target_results = <<>>)
        /\ ErrorsIffFailed

\* C27's case: a run over two targets has returned, one target has failed
\* and the other has reported a write.
C27_Witness ==
    /\ epc = "returned"
    /\ ~result.success
    /\ \E i, j \in DOMAIN result.target_results :
          /\ ~result.target_results[i].success
          /\ result.target_results[i].errors # <<>>
          /\ result.target_results[j].success
          /\ result.target_results[j].writes # <<>>

\* The merged registry and the section list of the source, and the
\* configuration the engine's configuration holds under a target's name.
SourceRegistry == dedup_servers(load_servers(source.global, source.local))
SourceSections == load_rules_file(source.rules)
OwnCfg(name) ==
    LET i == CHOOSE j \in DOMAIN _config.targets :
                 _config.targets[j].name = name
    IN _config.targets[i].tc

\* C28: the registry given to a target's generate_mcp is the source's
\* merged registry under that target's own exclusions and protocols, and
\* the section list given to its generate_rules is the source's sections
\* without the excluded ones, whichever targets were processed before it
\* and whether or not they failed; and the merged registry and section
\* list the loop filters from stay what was loaded from the source.
C28_HandedDependsOnOwnTarget ==
    (epc \in {"loaded", "returned"} /\ ~UnknownFilter) =>
        /\ ~flags.rules_only => run_servers = SourceRegistry
        /\ ~flags.mcp_only => run_sections = SourceSections
        /\ \A i \in DOMAIN handed :
              LET h == handed[i]
              IN /\ h.target_name = target_names[i]
                 /\ h.servers # <<>> =>
                       h.servers[1] = _filter_servers(SourceRegistry,
                                                      OwnCfg(h.target_name))
                 /\ h.sections # <<>> =>
                       h.sections[1] =
                           filter_sections(SourceSections,
                                           Elems(_config.exclude_sections))

\* C28's case: the first of two targets has failed and the second, whose
\* configuration excludes a server of the source, was given a registry
\* without it and a section list.
C28_Witness ==
    /\ Len(handed) = 2
    /\ raised[1] # "none"
    /\ handed[2].servers # <<>>
    /\ handed[2].servers[1] # SourceRegistry
    /\ handed[2].servers[1] # <<>>
    /\ handed[2].sections # <<>>
    /\ OwnCfg(target_names[1]) # OwnCfg(target_names[2])

\* The server names a target's file lists: the table names of config.toml
\* for Codex, the keys of mcpServers for Antigravity; a missing file, or
\* one that is no JSON, lists none.
ArtifactNames(tc) ==
    IF tc.type = CODEX
    THEN IF disk[tc.config_path].exists
         THEN _extract_server_names(disk[tc.config_path].text)
         ELSE {}
    ELSE IF disk[tc.mcp_path].exists
         THEN LET parsed == json_server_names(disk[tc.mcp_path].text)
              IN IF parsed.ok THEN parsed.keys ELSE {}
         ELSE {}

\* The names the file of a target is to list: the names of the source's
\* merged registry that pass the target's filter, each as the adapter
\* writes it (Codex writes the block name).
SurvivingNames(tc) ==
    LET kept == Keys(_filter_servers(SourceRegistry, tc))
    IN IF tc.type = CODEX THEN {BlockName(k) : k \in kept} ELSE kept

\* C29: after a successful run that was not a dry run and did not skip the
\* servers, the file of every processed target lists exactly the names of
\* the source's merged registry that pass that target's filter, also when
\* the source has no server.
C29_ArtifactListsSurvivors ==
    (/\ epc = "returned"
     /\ result.success
     /\ ~flags.dry_run
     /\ ~flags.rules_only) =>
        \A i \in DOMAIN target_names :
            ArtifactNames(OwnCfg(target_names[i]))
                = SurvivingNames(OwnCfg(target_names[i]))

\* The expected names of a target's validate(): those check_server_consistency
\* builds from what the adapter passes it, the registry of
\* _load_expected_servers, the target's exclude_servers, and stdio_only
\* for Antigravity alone.
ValidateExpected(tc) ==
    ExpectedNames(load_servers(source.global, source.local),
                  Elems(tc.exclude_servers), tc.type = ANTIGRAVITY)

\* validate() of the target gets as far as check_server_consistency: the
\* file is there, with both markers for Codex.
ValidateCompares(tc) ==
    IF tc.type = CODEX
    THEN /\ disk[tc.config_path].exists
         /\ Contains(disk[tc.config_path].text, MARKER_START)
         /\ Contains(disk[tc.config_path].text, MARKER_END)
    ELSE disk[tc.mcp_path].exists

\* C30: when a run is followed by a validation, the expected names that
\* the validate() of each target compares with are the names of the
\* registry the run gave to that target's generate_mcp.
C30_ValidateExpectsWhatSyncPassed ==
    epc = "validated" =>
        \A i \in DOMAIN handed :
            (/\ handed[i].servers # <<>>
             /\ ValidateCompares(OwnCfg(handed[i].target_name))) =>
                ValidateExpected(OwnCfg(handed[i].target_name))
                    = Keys(handed[i].servers[1])

---------------------------------------------------------------------------
\* Specification SpecValidator: Validator.run over one or two targets
\* whose validate() raises or returns at most MaxFindings findings of any
\* outcome and severity.

MaxFindings == 2

Severities == {"error", "warning", "info"}

FindingSet ==
    {Finding("check", p, "", s) : p \in BOOLEAN, s \in Severities}

ValidateOutcomes ==
    {[raises |-> TRUE, exc |-> "boom", results |-> <<>>]}
        \cup UNION {{Returns(r) : r \in [1..n -> FindingSet]} :
                       n \in 0..MaxFindings}

ValidatorInit ==
    /\ vtargets \in {<<[name |-> CODEX]>>,
                     <<[name |-> CODEX], [name |-> ANTIGRAVITY]>>}
    /\ vfilter \in FilterValues
    /\ vnames = <<>>
    /\ vidx = 0
    /\ report = NoReport
    /\ vpc = "start"
    /\ IdleMerge /\ IdleToml /\ IdleRules /\ IdleFilter /\ IdleEngine
    /\ IdleBackup

\* Validator.run, lines 158-173: the targets are selected; an unknown
\* target filter returns a failed report.
ValidatorStart ==
    /\ vpc = "start"
    /\ LET sel == SelectTargets(vtargets, vfilter)
       IN /\ vnames' = sel.names
          /\ report' = IF sel.ok THEN NoReport ELSE UnknownTargetReport(vfilter)
          /\ vpc' = IF sel.ok THEN "looping" ELSE "returned"
    /\ vidx' = 1
    /\ UNCHANGED <<vtargets, vfilter>>
    /\ UNCHANGED <<mergeVars, tomlVars, rulesVars, filterVars, engineVars>>
    /\ UNCHANGED backupVars

\* Validator.run, lines 176-192: one target is validated.
ValidatorTarget ==
    /\ vpc = "looping"
    /\ vidx <= Len(vnames)
    /\ \E o \in ValidateOutcomes :
          report' = ValidateTarget(report, vnames[vidx], o)
    /\ vidx' = vidx + 1
    /\ UNCHANGED <<vtargets, vfilter, vnames, vpc>>
    /\ UNCHANGED <<mergeVars, tomlVars, rulesVars, filterVars, engineVars>>
    /\ UNCHANGED backupVars

\* Validator.run, line 194: return report.
ValidatorReturn ==
    /\ vpc = "looping"
    /\ vidx > Len(vnames)
    /\ vpc' = "returned"
    /\ UNCHANGED <<vtargets, vfilter, vnames, vidx, report>>
    /\ UNCHANGED <<mergeVars, tomlVars, rulesVars, filterVars, engineVars>>
    /\ UNCHANGED backupVars

ValidatorNext == ValidatorStart \/ ValidatorTarget \/ ValidatorReturn

SpecValidator == ValidatorInit /\ [][ValidatorNext]_vars

---------------------------------------------------------------------------
\* Claims about the validation run.

ErrorFailed(f) == ~f.passed /\ f.severity = "error"

\* C16: a returned report has passed = true iff none of its findings
\* failed with severity "error", whether the findings came from the
\* adapters, stand for a validate() that raised or for an unknown target
\* filter; a failed finding of another severity does not fail the report.
C16_PassedIffNoErrorFailed ==
    vpc = "returned" =>
        (report.passed <=>
            \A i \in DOMAIN report.results : ~ErrorFailed(report.results[i]))

\* C16's case: a report that holds a failed warning and a failed info
\* finding, and a passed error finding, has passed.
C16_Witness ==
    /\ vpc = "returned"
    /\ report.passed
    /\ \E i, j, k \in DOMAIN report.results :
          /\ ~report.results[i].passed /\ report.results[i].severity = "warning"
          /\ ~report.results[j].passed /\ report.results[j].severity = "info"
          /\ report.results[k].passed /\ report.results[k].severity = "error"

---------------------------------------------------------------------------
\* Claims about the serialised rules.

\* The headers of a section list, in order, each with its level.
Headers(ss) == [i \in DOMAIN ss |-> [level |-> ss[i].level,
                                     header |-> ss[i].header]]

\* C20: the text generated from the filtered sections, their contents
\* joined by a blank line, parses back to the headers that are left when
\* every excluded section, and every minor child of an excluded major one,
\* is removed from the parsed list.
C20_FilterThenReparse ==
    rpc = "filtered" =>
        Headers(parse_markdown_sections(generate_rules(filtered)))
            = Headers(Survivors(all_sections, exclude_set, 1))

\* C20's case: an excluded major section went with a minor child that was
\* not excluded by name, and two sections were left to be joined.
C20_Witness ==
    /\ rpc = "filtered"
    /\ Len(filtered) = 2
    /\ LET text == generate_rules(filtered)
       IN \E n \in 1..(Len(text) - 1) : text[n] = NL /\ text[n + 1] = NL
    /\ \E i, j \in DOMAIN all_sections :
          /\ all_sections[i].level = 2
          /\ all_sections[i].header \in exclude_set
          /\ all_sections[j].level = 3
          /\ Parent(all_sections, j) = i
          /\ all_sections[j].header \notin exclude_set

\* The headers of the sections parse_markdown_sections returns for content.
LiveHeaders(content) ==
    LET ss == parse_markdown_sections(content)
    IN {ss[i].header : i \in DOMAIN ss}

\* C22: check_no_excluded_sections fails iff a header of the exclusion set
\* is the header of a section of the content, and it passes on the rules
\* text generated from the sections filtered with the same exclusion set.
C22_NoExcludedSections ==
    rpc = "checked" =>
        /\ ~section_check.finding.passed
               <=> (exclude_set \cap LiveHeaders(section_check.content) # {})
        /\ section_check.of = "generated" => section_check.finding.passed

---------------------------------------------------------------------------
\* Specification SpecBackup: runs of write_text calls, each run writing a
\* file at most once, with a clock that may stand still or advance between
\* two calls.

\* Runs of write calls.
MaxBackupRuns == 2
\* Seconds the clock advances.
MaxClock == 1

RULES_MD == "AGENTS.md"
BackupPaths == {MCP_A, MCP_B, RULES_MD}

Contents == {<<"x">>, <<"y">>}

BackupInit ==
    /\ \E d \in [BackupPaths -> {NoFile, [exists |-> TRUE, text |-> <<"x">>]}] :
          fsys = [disk |-> d, backups |-> {}, now |-> 0]
    /\ history = <<>>
    /\ wruns = 1
    /\ IdleMerge /\ IdleToml /\ IdleRules /\ IdleFilter /\ IdleEngine
    /\ IdleValidator

\* write_text(path, content, log, backup_dir, dry_run), as a target
\* adapter's write calls it.
WriteText ==
    /\ \E path \in BackupPaths, content \in Contents,
          backup_dir \in BOOLEAN, dry_run \in BOOLEAN :
          LET w == write_text(path, content, fsys, backup_dir, dry_run)
          IN /\ \A i \in DOMAIN history : history[i].path # path
             /\ fsys' = w.fs
             /\ history' = Append(history,
                                 [path |-> path, before |-> fsys.disk[path],
                                  backup_dir |-> backup_dir,
                                  written |-> w.res.written])
    /\ UNCHANGED wruns
    /\ UNCHANGED <<mergeVars, tomlVars, rulesVars, filterVars, engineVars,
                   validatorVars>>

\* datetime.now() moves on to the next second.
Tick ==
    /\ fsys.now < MaxClock
    /\ fsys' = [fsys EXCEPT !.now = @ + 1]
    /\ UNCHANGED <<history, wruns>>
    /\ UNCHANGED <<mergeVars, tomlVars, rulesVars, filterVars, engineVars,
                   validatorVars>>

\* The next run starts.
NextRun ==
    /\ wruns < MaxBackupRuns
    /\ history # <<>>
    /\ history' = <<>>
    /\ wruns' = wruns + 1
    /\ UNCHANGED fsys
    /\ UNCHANGED <<mergeVars, tomlVars, rulesVars, filterVars, engineVars,
                   validatorVars>>

BackupNext == WriteText \/ Tick \/ NextRun

SpecBackup == BackupInit /\ [][BackupNext]_vars

\* C26: with a backup directory, the backup directory holds, for every
\* file that existed and that a write of the current run overwrote, a
\* backup of that file with the content it had before the write.
C26_BackupBeforeOverwrite ==
    \A i \in DOMAIN history :
        (history[i].backup_dir /\ history[i].written
            /\ history[i].before.exists) =>
            \E b \in fsys.backups :
                /\ b.name.base = PathName(history[i].path)
                /\ b.text = history[i].before.text

====
